---- MODULE Spec2Model ----
(***************************************************************************)
(* Model of the Auth Manager of the workspace MCP server: the cached OAuth *)
(* client, the 'tokens' listener, the proactive refresh inside             *)
(* getAuthenticatedClient and the manual refreshToken, with the Credential *)
(* Store they persist to.  Callers run concurrently and interleave at the  *)
(* awaits (loadCredentials, the refresh endpoint call, saveCredentials).   *)
(***************************************************************************)
EXTENDS Integers, FiniteSets, Sequences, TLC

\* ---------------------------------------------------------------- bounds
\* Last instant of the clock.
MaxTime == 2

\* ------------------------------------------------------------- constants
\* An absent/undefined field of a credential or token set.
Undef == 0
\* The expiry of a token that is found expired (Date.now() - 1000).
StaleExpiry == 1
\* The expiry of a freshly issued token (Date.now() + 3600000): beyond the
\* modelled horizon.
FreshExpiry == MaxTime + 1

\* The concurrent requests holding the Auth Manager.
Callers == {"a", "b"}
\* Access tokens: the stored (older) one and the one a refresh issues.
OldToken == 1
FreshToken == 2
\* Refresh tokens: the stored one and a rotated one.
StoredRT == 1
RotatedRT == 2
\* Scopes: the stored one and a re-granted one.
StoredScope == 1
NewScope == 2

VARIABLES
    stored,       \* the record in the Credential Store (AbsentCred when none)
    client,       \* the cached client instance (Undef when not built)
    constructed,  \* number of OAuth2 clients constructed
    listeners,    \* number of 'tokens' listeners registered
    lastKnown,    \* client.credentials: the in-memory last known credential
    credsLoaded,  \* setCredentials ran with the loaded record
    now,          \* the clock
    pc,           \* per caller: idle, loading, fetching, saving, done
    op,           \* per caller: the operation in progress
    snap,         \* per caller: the credential read at step 1, then the merge
    result,       \* per caller: what the operation returned or threw
    call,         \* per caller: what the operation did (history)
    lpc,          \* the listener: idle or saving
    lmerged,      \* the listener: the merged record being saved
    hadRT,        \* the store held a refresh_token at start (history)
    workload      \* who is active: the requests in flight and the events

authVars == <<stored, client, constructed, listeners, lastKnown, credsLoaded,
              now, pc, op, snap, result, call, lpc, lmerged, hadRT, workload>>

\* The Docs service: one parseMarkdownToDocsRequests call, one replaceText
\* request.
VARIABLES
    markdown,     \* the markdown handed to the compiler
    startIndex,   \* the insertion offset handed to the compiler
    parsed,       \* what the compiler returned (NotParsed before the call)
    tabs,         \* the document of the request: its tabs, in order
    findText,     \* the text to find
    tabId,        \* the tab named by the request (NoTab when none)
    dpc,          \* the request: idle, scan, plan, batch, done
    scanned,      \* the tabs the planner is run on, in order
    cur,          \* the position in scanned of the tab being planned
    searchIndex,  \* the scan: where the next indexOf starts
    occurrences,  \* the scan: the indices recorded so far for this tab
    plans,        \* what the planner returned for each tab so far (history)
    found,        \* the occurrences the planner recorded for each tab (history)
    requests,     \* the batch being collected
    sent,         \* the batchUpdate calls issued, each with its requests
    response      \* what replaceText returned: none, success, error

docsVars == <<markdown, startIndex, parsed, tabs, findText, tabId, dpc, scanned,
              cur, searchIndex, occurrences, plans, found, requests, sent,
              response>>

\* A public operation of a service: the Docs operations that edit or read
\* one document, and any operation as the remote calls it makes.
VARIABLES
    method,       \* the operation called (NoMethod when none)
    lastEndIndex, \* per tab of the document: endIndex of its last element
    envelope,     \* the text item of the result returned (NoEnvelope before)
    script,       \* the remote calls the operation makes on its inputs
    position,     \* how many of them are behind it
    issued        \* the remote calls issued so far, each with its outcome

editVars == <<method, lastEndIndex, envelope>>
opsVars == <<script, position, issued>>
nonAuthVars == <<docsVars, editVars, opsVars>>

vars == <<authVars, docsVars, editVars, opsVars>>

\* No operation called, nothing returned.
NoMethod == "none"
NoEnvelope == [kind |-> "none", body |-> <<>>]

\* No tab named by the request (tabId undefined).
NoTab == "none"
\* The compiler's result before it was called.
NotParsed ==
    [returned |-> FALSE, plainText |-> <<>>, formattingRanges |-> <<>>,
     formattingRequests |-> <<>>]

\* The Docs service with no call made: the state the Auth Manager runs beside.
DocsIdle ==
    /\ markdown = <<>>
    /\ startIndex = 0
    /\ parsed = NotParsed
    /\ tabs = <<>>
    /\ findText = <<>>
    /\ tabId = NoTab
    /\ dpc = "idle"
    /\ scanned = <<>>
    /\ cur = 0
    /\ searchIndex = 0
    /\ occurrences = <<>>
    /\ plans = <<>>
    /\ found = <<>>
    /\ requests = <<>>
    /\ sent = <<>>
    /\ response = "none"

\* No operation of a service called.
EditIdle ==
    /\ method = NoMethod
    /\ lastEndIndex = <<>>
    /\ envelope = NoEnvelope
OpsIdle ==
    /\ script = <<>>
    /\ position = 0
    /\ issued = <<>>

\* ------------------------------------------------------------ credentials
Defined(x) == x # Undef

AbsentCred ==
    [access_token |-> Undef, refresh_token |-> Undef,
     expiry_date |-> Undef, scope |-> Undef]

\* The records loadCredentials can return at start.
InitCreds ==
    {AbsentCred} \cup
    [access_token : {OldToken}, refresh_token : {Undef, StoredRT},
     expiry_date : {Undef, StaleExpiry, FreshExpiry}, scope : {StoredScope}]

\* The expiry of the credential is in the past at instant t.
IsExpired(c, t) == Defined(c.expiry_date) /\ c.expiry_date < t

\* Step 3 of the refresh algorithm: {...previous, ...new}, the previous
\* refresh_token carried forward when the new set has none.
Merge(prev, new) ==
    [k \in DOMAIN prev |-> IF Defined(new[k]) THEN new[k] ELSE prev[k]]

\* A listener that saves the delivered tokens as they are.
ListenerMergeNoCarry(current, tokens) == tokens

\* A listener that overlays the delivered tokens on the known credential,
\* keeping every field the payload lacks.
ListenerMergeOverlay(current, tokens) == Merge(current, tokens)

\* The 'tokens' listener: the delivered fields, plus the known refresh_token
\* when the delivered set has none.
ListenerMerge(current, tokens) ==
    [tokens EXCEPT !.refresh_token =
        IF Defined(tokens.refresh_token) THEN tokens.refresh_token
        ELSE current.refresh_token]

\* The JSON bodies the refresh endpoint can answer with: access_token,
\* optional expiry_date, optional refresh_token.
Responses ==
    [access_token : {FreshToken}, refresh_token : {Undef, RotatedRT},
     expiry_date : {Undef, FreshExpiry}, scope : {Undef}]

\* The payloads a 'tokens' event can carry: the new access_token (the older
\* or the fresh one) with any subset of refresh_token, expiry_date and scope.
Payloads ==
    [access_token : {OldToken, FreshToken},
     refresh_token : {Undef, RotatedRT},
     expiry_date : {Undef, StaleExpiry, FreshExpiry},
     scope : {Undef, NewScope}]

NoCall ==
    [fetches |-> 0, saves |-> 0, sentRT |-> Undef, due |-> FALSE,
     rtAtCheck |-> Undef, respExpiry |-> FALSE, expiredAtReturn |-> FALSE,
     client |-> Undef]

\* The workloads explored: one request flow with the library's token events
\* arriving at any await, and two concurrent request flows racing each
\* other while the library stays silent.
Workloads ==
    {[callers |-> {"a"}, events |-> TRUE],
     [callers |-> Callers, events |-> FALSE]}

\* --------------------------------------------------------------- initial
AuthInit ==
    /\ stored \in InitCreds
    /\ hadRT = Defined(stored.refresh_token)
    /\ client = Undef
    /\ constructed = 0
    /\ listeners = 0
    /\ lastKnown = AbsentCred
    /\ credsLoaded = FALSE
    /\ now = 1
    /\ pc = [c \in Callers |-> "idle"]
    /\ op = [c \in Callers |-> "none"]
    /\ snap = [c \in Callers |-> AbsentCred]
    /\ result = [c \in Callers |-> "none"]
    /\ call = [c \in Callers |-> NoCall]
    /\ lpc = "idle"
    /\ lmerged = AbsentCred
    /\ workload \in Workloads
    /\ DocsIdle
    /\ EditIdle
    /\ OpsIdle

\* ----------------------------------------------------------------- steps
\* The cached-client test at the top of getAuthenticatedClient.
ClientCached == client # Undef

\* The operation of caller c ends, returning or throwing `res`; `mem` is the
\* last known credential and `inst` the client at that moment.
Finish(c, res, mem, inst, info) ==
    /\ pc' = [pc EXCEPT ![c] = "done"]
    /\ result' = [result EXCEPT ![c] = res]
    /\ call' = [call EXCEPT ![c] =
                  [info EXCEPT !.expiredAtReturn = IsExpired(mem, now),
                               !.client = inst]]

\* A refresh that calls the endpoint without looking for a refresh_token.
BeginRefreshUnchecked(c, k, inst, info) ==
    /\ pc' = [pc EXCEPT ![c] = "fetching"]
    /\ snap' = [snap EXCEPT ![c] = k]
    /\ call' = [call EXCEPT ![c] =
                  [info EXCEPT !.fetches = @ + 1,
                               !.sentRT = k.refresh_token]]
    /\ UNCHANGED result

\* Steps 1 and 2 of the refresh algorithm for caller c on credential k: no
\* refresh_token, an auth error and no network call; otherwise the POST to
\* the refresh endpoint with that refresh_token in the body.
BeginRefresh(c, k, inst, info) ==
    IF Defined(k.refresh_token)
    THEN /\ pc' = [pc EXCEPT ![c] = "fetching"]
         /\ snap' = [snap EXCEPT ![c] = k]
         /\ call' = [call EXCEPT ![c] =
                       [info EXCEPT !.fetches = @ + 1,
                                    !.sentRT = k.refresh_token]]
         /\ UNCHANGED result
    ELSE /\ Finish(c, "no_refresh_token", k, inst, info)
         /\ UNCHANGED snap

\* A getAuthenticatedClient that returns the client without the expiry
\* check.
ReturnUnchecked(c, k, inst) ==
    /\ Finish(c, "client", k, inst,
              [NoCall EXCEPT !.due = IsExpired(k, now)
                                       /\ Defined(k.refresh_token),
                             !.rtAtCheck = k.refresh_token])
    /\ UNCHANGED snap

\* The expiry check of getAuthenticatedClient on credential k: refresh
\* first when it is expired, return the client otherwise.
CheckOrRefresh(c, k, inst) ==
    IF IsExpired(k, now)
    THEN BeginRefresh(c, k, inst,
            [NoCall EXCEPT !.due = Defined(k.refresh_token),
                           !.rtAtCheck = k.refresh_token])
    ELSE /\ Finish(c, "client", k, inst, NoCall)
         /\ UNCHANGED snap

\* A client built without its 'tokens' listener.
GetClientBuildNoListener(c) ==
    /\ c \in workload.callers
    /\ pc[c] = "idle"
    /\ ~ClientCached
    /\ constructed' = constructed + 1
    /\ client' = constructed + 1
    /\ pc' = [pc EXCEPT ![c] = "loading"]
    /\ op' = [op EXCEPT ![c] = "gac"]
    /\ UNCHANGED <<stored, listeners, lastKnown, credsLoaded, now, snap,
                   result, call, lpc, lmerged, hadRT, workload>>

\* getAuthenticatedClient, no cached client: build the OAuth2 client once,
\* register the 'tokens' listener, then await loadCredentials.
GetClientBuild(c) ==
    /\ c \in workload.callers
    /\ pc[c] = "idle"
    /\ ~ClientCached
    /\ constructed' = constructed + 1
    /\ listeners' = listeners + 1
    /\ client' = constructed + 1
    /\ pc' = [pc EXCEPT ![c] = "loading"]
    /\ op' = [op EXCEPT ![c] = "gac"]
    /\ UNCHANGED <<stored, lastKnown, credsLoaded, now, snap, result,
                   call, lpc, lmerged, hadRT, workload>>

\* A first call that returns the client right after setCredentials.
LoadDoneUnchecked(c) ==
    /\ pc[c] = "loading"
    /\ lastKnown' = stored
    /\ credsLoaded' = TRUE
    /\ ReturnUnchecked(c, stored, client)
    /\ UNCHANGED <<stored, client, constructed, listeners, now, op,
                   lpc, lmerged, hadRT, workload>>

\* loadCredentials resolved: setCredentials with the stored record, then the
\* expiry check.
LoadDone(c) ==
    /\ pc[c] = "loading"
    /\ lastKnown' = stored
    /\ credsLoaded' = TRUE
    /\ CheckOrRefresh(c, stored, client)
    /\ UNCHANGED <<stored, client, constructed, listeners, now, op,
                   lpc, lmerged, hadRT, workload>>

\* getAuthenticatedClient with a cached client: the expiry check on the last
\* known credential.
GetClientCached(c) ==
    /\ c \in workload.callers
    /\ pc[c] = "idle"
    /\ ClientCached
    /\ op' = [op EXCEPT ![c] = "gac"]
    /\ CheckOrRefresh(c, lastKnown, client)
    /\ UNCHANGED <<stored, client, constructed, listeners, lastKnown,
                   credsLoaded, now, lpc, lmerged, hadRT, workload>>

\* refreshToken(): the refresh sequence, whatever the expiry.
RefreshToken(c) ==
    /\ c \in workload.callers
    /\ pc[c] = "idle"
    /\ op' = [op EXCEPT ![c] = "refresh"]
    /\ BeginRefresh(c, lastKnown, client, NoCall)
    /\ UNCHANGED <<stored, client, constructed, listeners, lastKnown,
                   credsLoaded, now, lpc, lmerged, hadRT, workload>>

\* The refresh endpoint answered 2xx with r: merge with the credential
\* read at step 1 and call saveCredentials with the merge.
FetchOk(c, r) ==
    /\ pc[c] = "fetching"
    /\ r \in Responses
    /\ stored' = Merge(snap[c], r)
    /\ snap' = [snap EXCEPT ![c] = Merge(snap[c], r)]
    /\ pc' = [pc EXCEPT ![c] = "saving"]
    /\ call' = [call EXCEPT ![c].saves = @ + 1,
                            ![c].respExpiry = Defined(r.expiry_date)]
    /\ UNCHANGED <<client, constructed, listeners, lastKnown, credsLoaded, now,
                   op, result, lpc, lmerged, hadRT, workload>>

\* A failed refresh that also forgets the credentials.
FetchFailClearing(c) ==
    /\ pc[c] = "fetching"
    /\ Finish(c, "refresh_failed", AbsentCred, client, call[c])
    /\ lastKnown' = AbsentCred
    /\ stored' = AbsentCred
    /\ UNCHANGED <<client, constructed, listeners, credsLoaded, now,
                   op, snap, lpc, lmerged, hadRT, workload>>

\* The refresh endpoint call failed (network failure or non-2xx): the error
\* goes to the caller, nothing is merged or saved.
FetchFail(c) ==
    /\ pc[c] = "fetching"
    /\ Finish(c, "refresh_failed", lastKnown, client, call[c])
    /\ UNCHANGED <<stored, client, constructed, listeners, lastKnown,
                   credsLoaded, now, op, snap, lpc, lmerged,
                   hadRT, workload>>

\* saveCredentials resolved: the in-memory credential becomes the merge and
\* the operation returns.
SaveDone(c) ==
    /\ pc[c] = "saving"
    /\ lastKnown' = snap[c]
    /\ Finish(c, IF op[c] = "gac" THEN "client" ELSE "refreshed",
              snap[c], client, call[c])
    /\ UNCHANGED <<stored, client, constructed, listeners, credsLoaded, now,
                   op, snap, lpc, lmerged, hadRT, workload>>

\* The caller takes the result and is free for its next request.
Return(c) ==
    /\ pc[c] = "done"
    /\ pc' = [pc EXCEPT ![c] = "idle"]
    /\ op' = [op EXCEPT ![c] = "none"]
    /\ snap' = [snap EXCEPT ![c] = AbsentCred]
    /\ result' = [result EXCEPT ![c] = "none"]
    /\ call' = [call EXCEPT ![c] = NoCall]
    /\ UNCHANGED <<stored, client, constructed, listeners, lastKnown,
                   credsLoaded, now, lpc, lmerged, hadRT, workload>>

\* The OAuth library emits 'tokens' with payload t: the listener merges it
\* with the known credential and calls saveCredentials.
TokensEvent(t) ==
    /\ listeners > 0
    /\ credsLoaded
    /\ workload.events
    /\ lpc = "idle"
    /\ t \in Payloads
    /\ stored' = ListenerMerge(lastKnown, t)
    /\ lmerged' = ListenerMerge(lastKnown, t)
    /\ lpc' = "saving"
    /\ UNCHANGED <<client, constructed, listeners, lastKnown, credsLoaded, now,
                   pc, op, snap, result, call, hadRT, workload>>

\* The listener's saveCredentials resolved: the in-memory credential becomes
\* the merge.
ListenerSaveDone ==
    /\ lpc = "saving"
    /\ lastKnown' = lmerged
    /\ lpc' = "idle"
    /\ lmerged' = AbsentCred
    /\ UNCHANGED <<stored, client, constructed, listeners, credsLoaded, now,
                   pc, op, snap, result, call, hadRT, workload>>

\* Time passes.
Tick ==
    /\ now < MaxTime
    /\ now' = now + 1
    /\ UNCHANGED <<stored, client, constructed, listeners, lastKnown,
                   credsLoaded, pc, op, snap, result, call, lpc, lmerged,
                   hadRT, workload>>

AuthNext ==
    \/ \E c \in Callers : GetClientBuild(c) /\ UNCHANGED nonAuthVars
    \/ \E c \in Callers : LoadDone(c) /\ UNCHANGED nonAuthVars
    \/ \E c \in Callers : GetClientCached(c) /\ UNCHANGED nonAuthVars
    \/ \E c \in Callers : RefreshToken(c) /\ UNCHANGED nonAuthVars
    \/ \E c \in Callers : \E r \in Responses :
           FetchOk(c, r) /\ UNCHANGED nonAuthVars
    \/ \E c \in Callers : FetchFail(c) /\ UNCHANGED nonAuthVars
    \/ \E c \in Callers : SaveDone(c) /\ UNCHANGED nonAuthVars
    \/ \E c \in Callers : Return(c) /\ UNCHANGED nonAuthVars
    \/ \E t \in Payloads : TokensEvent(t) /\ UNCHANGED nonAuthVars
    \/ ListenerSaveDone /\ UNCHANGED nonAuthVars
    \/ Tick /\ UNCHANGED nonAuthVars

SpecAuth == AuthInit /\ [][AuthNext]_vars

\* ------------------------------------------------------------ properties
Keys == DOMAIN AbsentCred

\* m is prev overlaid with new: a key of new wins, a key only prev has stays.
Overlay(m, prev, new) ==
    \A k \in Keys : m[k] = IF Defined(new[k]) THEN new[k] ELSE prev[k]

\* The step is caller c's refresh endpoint call resolving with a 2xx answer.
Merged(c) == pc[c] = "fetching" /\ pc'[c] = "saving"

\* The step is the listener receiving a 'tokens' event.
Delivered == lpc = "idle" /\ lpc' = "saving"

\* C1: starting from a stored credential with a refresh_token, every record
\* passed to saveCredentials (by the listener, a proactive or a manual
\* refresh, in any interleaving) and the in-memory last known credential
\* have a defined refresh_token.
C1_RefreshTokenNeverDropped ==
    hadRT =>
        /\ Defined(stored.refresh_token)
        /\ credsLoaded => Defined(lastKnown.refresh_token)
        /\ lpc = "saving" => Defined(lmerged.refresh_token)
        /\ \A c \in Callers :
              pc[c] \in {"fetching", "saving"}
                  => Defined(snap[c].refresh_token)

\* A listener save and a refresh save in flight at once, both of token sets
\* without a refresh_token and both carrying the stored one.
C1_Witness ==
    /\ hadRT
    /\ lpc = "saving"
    /\ lmerged.refresh_token = StoredRT
    /\ \E c \in Callers :
          pc[c] = "saving" /\ snap[c].refresh_token = StoredRT

\* C2: on the listener path, the proactive path and the manual path alike,
\* the saved record's refresh_token is the new one when the new token set
\* has one and the previous credential's otherwise, whatever the other
\* fields are.
C2_MergeRefreshToken ==
    [][/\ Delivered =>
            \A t \in Payloads :
                TokensEvent(t) =>
                    stored'.refresh_token =
                        IF Defined(t.refresh_token) THEN t.refresh_token
                        ELSE lastKnown.refresh_token
       /\ \A c \in Callers :
            Merged(c) =>
                \A r \in Responses :
                    FetchOk(c, r) =>
                        stored'.refresh_token =
                            IF Defined(r.refresh_token)
                            THEN r.refresh_token
                            ELSE snap[c].refresh_token]_vars

\* The listener took a rotated refresh_token over the known one while a
\* proactive refresh without one kept the known one.
C2_Witness ==
    /\ lpc = "saving"
    /\ lmerged.refresh_token = RotatedRT
    /\ lastKnown.refresh_token = StoredRT
    /\ \E c \in Callers :
          /\ pc[c] = "saving"
          /\ op[c] = "gac"
          /\ snap[c].refresh_token = StoredRT
          /\ snap[c].access_token = FreshToken

\* Caller c's getAuthenticatedClient has just returned the client.
GotClient(c) == pc[c] = "done" /\ op[c] = "gac" /\ result[c] = "client"

\* C3: when getAuthenticatedClient finds the last known credential (the one
\* just loaded on the first call included) expired and holding a
\* refresh_token, the refresh endpoint was called with that refresh_token
\* and the merged credential was saved before the client is returned.
C3_ProactiveRefreshBeforeReturn ==
    \A c \in Callers :
        GotClient(c) /\ call[c].due =>
            /\ call[c].fetches = 1
            /\ call[c].sentRT = call[c].rtAtCheck
            /\ Defined(call[c].sentRT)
            /\ call[c].saves = 1

\* A first call that loaded an expired credential and returned the client
\* after refreshing it.
C3_Witness ==
    \E c \in Callers :
        /\ GotClient(c)
        /\ call[c].due
        /\ call[c].sentRT = StoredRT
        /\ stored.access_token = FreshToken

\* C4 as stated: whenever getAuthenticatedClient returns the client, the
\* last known credential's expiry is not in the past at that moment, also
\* when the refresh endpoint's answer had no expiry_date.
C4_NeverExpiredOnReturn ==
    \A c \in Callers : GotClient(c) => ~call[c].expiredAtReturn

\* C4 amended: whenever getAuthenticatedClient returns the client, the last
\* known credential's expiry is not in the past at that moment, unless the
\* call refreshed and the refresh endpoint's answer had no expiry_date (the
\* merge then keeps the previous, past expiry_date).
C4_NotExpiredUnlessExpiryOmitted ==
    \A c \in Callers :
        GotClient(c) /\ (call[c].fetches = 0 \/ call[c].respExpiry)
            => ~call[c].expiredAtReturn

\* A call that found the credential expired, refreshed it with an answer
\* carrying an expiry_date and returned the client.
C4_Witness ==
    \E c \in Callers :
        /\ GotClient(c)
        /\ call[c].due
        /\ call[c].fetches = 1
        /\ call[c].respExpiry
        /\ ~call[c].expiredAtReturn

\* C5 as stated: once a refresh has persisted its credential, a listener
\* event carrying an older access_token never takes the persisted or the
\* in-memory access_token back from the more recent one.
C5_NoAccessTokenRegress ==
    [][(\E c \in Callers : call[c].saves = 1) =>
          /\ Delivered => stored'.access_token >= stored.access_token
          /\ lpc = "saving" /\ lpc' = "idle"
               => lastKnown'.access_token >= lastKnown.access_token]_vars

\* C5 amended: the listener writes the access_token of its payload to the
\* store and then to memory, older or not (new fields win, the last write
\* wins); what a late event never does is lose the refresh_token: its
\* record has a refresh_token whenever the payload or the last known
\* credential has one.
C5_ListenerLastWriteWins ==
    [][/\ Delivered =>
            \A t \in Payloads :
                TokensEvent(t) =>
                    /\ stored'.access_token = t.access_token
                    /\ lmerged'.access_token = t.access_token
                    /\ Defined(t.refresh_token)
                           \/ Defined(lastKnown.refresh_token)
                         => Defined(stored'.refresh_token)
       /\ lpc = "saving" /\ lpc' = "idle"
            => lastKnown'.access_token = lmerged.access_token]_vars

\* A refresh has persisted and installed the fresh access_token, and a late
\* event has just overwritten the persisted one with the older token.
C5_Witness ==
    /\ lpc = "saving"
    /\ lmerged.access_token = OldToken
    /\ stored.access_token = OldToken
    /\ lastKnown.access_token = FreshToken
    /\ \E c \in Callers : pc[c] = "done" /\ call[c].saves = 1

C7_ListenerSavesDeliveredPlusRefreshToken ==
    [][Delivered =>
          \A t \in Payloads :
              TokensEvent(t) /\ ~Defined(t.refresh_token) =>
                  /\ stored' = [access_token |-> t.access_token,
                                refresh_token |-> lastKnown.refresh_token,
                                expiry_date |-> t.expiry_date,
                                scope |-> t.scope]
                  /\ lmerged' = stored']_vars

\* The tests' case: known {old token, stored refresh_token, scope}, payload
\* {new token, expiry}; saved {new token, stored refresh_token, expiry}.
C7_Witness ==
    /\ lpc = "saving"
    /\ lastKnown = [access_token |-> OldToken, refresh_token |-> StoredRT,
                    expiry_date |-> Undef, scope |-> StoredScope]
    /\ stored = [access_token |-> FreshToken, refresh_token |-> StoredRT,
                 expiry_date |-> FreshExpiry, scope |-> Undef]
    /\ lmerged = stored

\* Caller c's step starts a refresh (manual, or proactive on an expired
\* credential) on credential k.
StartsRefreshOn(c, k) ==
    \/ RefreshToken(c) /\ k = lastKnown
    \/ GetClientCached(c) /\ k = lastKnown /\ IsExpired(k, now)
    \/ LoadDone(c) /\ k = stored /\ IsExpired(k, now)

\* C8: a refresh attempted, proactively or by refreshToken, on a credential
\* without refresh_token fails with the auth error, calls the refresh
\* endpoint not at all and saves nothing.
C8_NoRefreshTokenNoCall ==
    [][\A c \in Callers :
          pc[c] \in {"idle", "loading"} =>
              \A k \in {lastKnown, stored} :
                  StartsRefreshOn(c, k) /\ ~Defined(k.refresh_token) =>
                      /\ pc'[c] = "done"
                      /\ result'[c] = "no_refresh_token"
                      /\ call'[c].fetches = 0
                      /\ call'[c].saves = 0
                      /\ stored' = stored]_vars

\* Both kinds of refresh have failed for want of a refresh_token: a
\* proactive one on an expired credential and a manual one.
C8_Witness ==
    /\ \E c \in Callers :
          /\ pc[c] = "done"
          /\ op[c] = "gac"
          /\ result[c] = "no_refresh_token"
          /\ call[c].fetches = 0
    /\ \E c \in Callers :
          /\ pc[c] = "done"
          /\ op[c] = "refresh"
          /\ result[c] = "no_refresh_token"
          /\ call[c].fetches = 0
    /\ credsLoaded
    /\ IsExpired(lastKnown, now)

\* C9: when the refresh endpoint call fails, the error goes to the caller
\* after that one call (no retry), nothing is saved, and the step leaves
\* the persisted and the in-memory credential as they were.
C9_FailedRefreshChangesNothing ==
    /\ [][\A c \in Callers :
             pc[c] = "fetching" /\ pc'[c] = "done" =>
                 /\ result'[c] = "refresh_failed"
                 /\ stored' = stored
                 /\ lastKnown' = lastKnown]_vars
    /\ [](\A c \in Callers :
             result[c] = "refresh_failed" =>
                 /\ pc[c] = "done"
                 /\ call[c].fetches = 1
                 /\ call[c].saves = 0)

\* A proactive refresh of a loaded, expired credential has failed; the
\* store and the memory still hold that credential.
C9_Witness ==
    \E c \in Callers :
        /\ result[c] = "refresh_failed"
        /\ op[c] = "gac"
        /\ call[c].due
        /\ stored = lastKnown
        /\ Defined(stored.refresh_token)
        /\ IsExpired(stored, now)

\* C10: over any sequence of getAuthenticatedClient calls the OAuth client
\* is constructed once and the 'tokens' listener registered once, at
\* construction; every call returns that one cached instance.
C10_OneClientOneListener ==
    /\ constructed <= 1
    /\ listeners = constructed
    /\ ClientCached <=> constructed = 1
    /\ \A c \in Callers :
          (pc[c] = "done" /\ op[c] = "gac") \/ pc[c] = "loading"
              => ClientCached /\ constructed = 1
    /\ \A c \in Callers : GotClient(c) => call[c].client = client

\* Two concurrent getAuthenticatedClient calls, one that built the client
\* and one that found it cached, have returned the same instance.
C10_Witness ==
    /\ \A c \in Callers : GotClient(c) /\ call[c].client = 1
    /\ constructed = 1
    /\ listeners = 1

\* ======================================================================
\* The Docs service: the markdown compiler (parseMarkdownToDocsRequests)
\* and the text-replacement planner (replaceText and
\* _generateReplacementRequests).  A string is a sequence of characters.
\* ======================================================================

\* ---------------------------------------------------------------- bounds
\* Most inline fragments in the first line of a compiled markdown.
MaxFrags == 2
\* Longest text of a document's first tab.
MaxLen == 4
\* Longest findText.
MaxFind == 2

\* --------------------------------------------------------------- strings
\* String.prototype.length and concatenation are Len and \o.
NL == "\n"
IsSpace(c) == c = " "

\* The strings over a set of characters, up to a length.
StringsUpTo(chars, n) == UNION {[1..k -> chars] : k \in 0..n}

\* s.startsWith(t, from), from 0-based.
StartsWithAt(s, t, from) ==
    /\ from + Len(t) <= Len(s)
    /\ \A k \in 1..Len(t) : s[from + k] = t[k]

\* s.indexOf(t, from): the first 0-based position >= from where t starts,
\* -1 when there is none.  For the empty t that is min(from, s.length).
IndexOf(s, t, from) ==
    LET at == {p \in from..Len(s) : StartsWithAt(s, t, p)}
    IN  IF t = <<>> THEN (IF from < Len(s) THEN from ELSE Len(s))
        ELSE IF at = {} THEN -1
        ELSE CHOOSE p \in at : \A q \in at : p <= q

\* markdown.split('\n'): the lines, one more than the newlines.
RECURSIVE Split(_)
Split(s) ==
    LET n == IndexOf(s, <<NL>>, 0)
    IN  IF n = -1 THEN <<s>>
        ELSE <<SubSeq(s, 1, n)>> \o Split(SubSeq(s, n + 2, Len(s)))

\* line.trim() is truthy: the line holds a character that is not whitespace.
TrimTruthy(line) == \E k \in 1..Len(line) : ~IsSpace(line[k])

\* ------------------------------------------------- the markdown compiler
\* An inline token of the marked lexer: nested says that it has a tokens
\* array (every span but a code span has), tokens is that array.
Token(type, text, nested, tokens, href) ==
    [type |-> type, text |-> text, nested |-> nested, tokens |-> tokens,
     href |-> href]

\* The backquote, written as a character a string can hold.
Backquote == "~"

\* The characters that open an inline span.
Opens(c) == c \in {"*", Backquote, "["}

\* The length of the literal text at the head of s: its first character and
\* the characters after it up to the next one that opens a span.
RECURSIVE TextRun(_, _)
TextRun(s, n) ==
    IF n < Len(s) /\ ~Opens(s[n + 1]) THEN TextRun(s, n + 1) ELSE n

\* lexer.inlineTokens(src) of the marked library, for the inline constructs
\* the compiler tells apart (code span, strong, em, link); a
\* delimiter with no closing partner is literal text.
RECURSIVE inlineTokens(_)
inlineTokens(src) ==
    LET n      == Len(src)
        rest(k) == SubSeq(src, k + 1, n)
        code   == IndexOf(src, <<Backquote>>, 1)
        strong == IndexOf(src, <<"*", "*">>, 2)
        em     == IndexOf(src, <<"*">>, 1)
        mid    == IndexOf(src, <<"]", "(">>, 1)
        close  == IF mid = -1 THEN -1 ELSE IndexOf(src, <<")">>, mid + 2)
        run    == TextRun(src, 1)
    IN  IF src = <<>> THEN <<>>
        ELSE IF Head(src) = Backquote /\ code > 1
        THEN <<Token("codespan", SubSeq(src, 2, code), FALSE, <<>>, <<>>)>>
             \o inlineTokens(rest(code + 1))
        ELSE IF StartsWithAt(src, <<"*", "*">>, 0) /\ strong > 2
        THEN <<Token("strong", SubSeq(src, 3, strong), TRUE,
                     inlineTokens(SubSeq(src, 3, strong)), <<>>)>>
             \o inlineTokens(rest(strong + 2))
        ELSE IF Head(src) = "*" /\ ~StartsWithAt(src, <<"*", "*">>, 0) /\ em > 1
        THEN <<Token("em", SubSeq(src, 2, em), TRUE,
                     inlineTokens(SubSeq(src, 2, em)), <<>>)>>
             \o inlineTokens(rest(em + 1))
        ELSE IF Head(src) = "[" /\ close # -1
        THEN <<Token("link", SubSeq(src, 2, mid), TRUE,
                     inlineTokens(SubSeq(src, 2, mid)),
                     SubSeq(src, mid + 3, close))>>
             \o inlineTokens(rest(close + 1))
        ELSE <<Token("text", SubSeq(src, 1, run), FALSE, <<>>, <<>>)>>
             \o inlineTokens(rest(run))

\* A FormatRange pushed by the compiler; url and headingLevel are absent
\* (empty, 0) on the kinds that do not carry them.
FormatRange(start, end, type, url, headingLevel, isParagraph) ==
    [start |-> start, end |-> end, type |-> type, url |-> url,
     headingLevel |-> headingLevel, isParagraph |-> isParagraph]

\* processTokens with the start of a span read after its text was appended.
RECURSIVE processTokensLateStart(_, _)
processTokensLateStart(tokens, acc) ==
    IF tokens = <<>> THEN acc
    ELSE
    LET token  == Head(tokens)
        append == [acc EXCEPT !.plainText = @ \o token.text]
        inner  == IF token.nested
                  THEN processTokensLateStart(token.tokens, acc)
                  ELSE append
        push(a, type, url) ==
            [a EXCEPT !.formattingRanges =
                 Append(@, FormatRange(Len(a.plainText), Len(a.plainText),
                                       type, url, 0, FALSE))]
        after  ==
            CASE token.type \in {"text", "escape"} -> inner
              [] token.type = "strong"   -> push(inner, "bold", <<>>)
              [] token.type = "em"       -> push(inner, "italic", <<>>)
              [] token.type = "codespan" -> push(append, "code", <<>>)
              [] token.type = "link"     -> push(inner, "link", token.href)
              [] OTHER -> inner
    IN  processTokensLateStart(Tail(tokens), after)

\* processTokens: walks the tokens, appending to plainText and pushing the
\* ranges; acc holds the two closure variables plainText, formattingRanges.
RECURSIVE processTokens(_, _)
processTokens(tokens, acc) ==
    IF tokens = <<>> THEN acc
    ELSE
    LET token  == Head(tokens)
        start  == Len(acc.plainText)
        append == [acc EXCEPT !.plainText = @ \o token.text]
        inner  == IF token.nested THEN processTokens(token.tokens, acc)
                  ELSE append
        push(a, type, url) ==
            [a EXCEPT !.formattingRanges =
                 Append(@, FormatRange(start, Len(a.plainText), type, url,
                                       0, FALSE))]
        after  ==
            CASE token.type \in {"text", "escape"} -> inner
              [] token.type = "strong"   -> push(inner, "bold", <<>>)
              [] token.type = "em"       -> push(inner, "italic", <<>>)
              [] token.type = "codespan" -> push(append, "code", <<>>)
              [] token.type = "link"     -> push(inner, "link", token.href)
              [] OTHER -> IF token.nested
                          THEN processTokens(token.tokens, acc)
                          ELSE IF token.text # <<>> THEN append ELSE acc
    IN  processTokens(Tail(tokens), after)

\* The fewest and the most hashes of a heading line.
HeadingMin == 1
HeadingMax == 6

\* The count of hashes at the start of a line.
RECURSIVE LeadingHashes(_)
LeadingHashes(line) ==
    IF line # <<>> /\ Head(line) = "#"
    THEN 1 + LeadingHashes(Tail(line)) ELSE 0

\* The count of whitespace characters at the start of a string.
RECURSIVE LeadingSpaces(_)
LeadingSpaces(s) ==
    IF s # <<>> /\ IsSpace(Head(s))
    THEN 1 + LeadingSpaces(Tail(s)) ELSE 0

\* The pattern with the level always 1, and with no limit on the hashes.
headingMatchLevelOne(line) ==
    LET level == LeadingHashes(line)
        after == SubSeq(line, level + 1, Len(line))
        gap   == LeadingSpaces(after)
        tail  == SubSeq(after, gap + 1, Len(after))
    IN  IF level >= HeadingMin /\ level <= HeadingMax /\ gap > 0
           /\ Len(after) > 1
        THEN [matched |-> TRUE, level |-> HeadingMin,
              content |-> IF tail # <<>> THEN tail ELSE <<after[gap]>>]
        ELSE [matched |-> FALSE, level |-> 0, content |-> <<>>]

headingMatchAnyLevel(line) ==
    LET level == LeadingHashes(line)
        after == SubSeq(line, level + 1, Len(line))
        gap   == LeadingSpaces(after)
        tail  == SubSeq(after, gap + 1, Len(after))
    IN  IF level >= HeadingMin /\ gap > 0 /\ Len(after) > 1
        THEN [matched |-> TRUE, level |-> level,
              content |-> IF tail # <<>> THEN tail ELSE <<after[gap]>>]
        ELSE [matched |-> FALSE, level |-> 0, content |-> <<>>]

\* line.match(/^(#{1,6})\s+(.+)$/): the hashes are greedy but a seventh hash
\* is no whitespace; the whitespace is greedy and gives its last character
\* back to the content when nothing follows it.
headingMatch(line) ==
    LET level == LeadingHashes(line)
        after == SubSeq(line, level + 1, Len(line))
        gap   == LeadingSpaces(after)
        tail  == SubSeq(after, gap + 1, Len(after))
        no    == [matched |-> FALSE, level |-> 0, content |-> <<>>]
    IN  IF level < HeadingMin \/ level > HeadingMax \/ gap = 0 THEN no
        ELSE IF tail # <<>>
        THEN [matched |-> TRUE, level |-> level, content |-> tail]
        ELSE IF gap >= 2
        THEN [matched |-> TRUE, level |-> level,
              content |-> <<after[gap]>>]
        ELSE no

\* The pass with the newline appended after every line, the last included.
ProcessLineAlwaysNewline(lines, i, acc) ==
    LET line == lines[i]
        m    == headingMatch(line)
        body ==
            IF m.matched
            THEN LET in == processTokens(inlineTokens(m.content), acc)
                 IN  [in EXCEPT !.formattingRanges =
                          Append(@, FormatRange(Len(acc.plainText),
                                                Len(in.plainText), "heading",
                                                <<>>, m.level, TRUE))]
            ELSE IF TrimTruthy(line)
            THEN processTokens(inlineTokens(line), acc)
            ELSE acc
    IN  [body EXCEPT !.plainText = @ \o <<NL>>]

\* One pass of the loop over the lines (for i ...): line i of lines, from
\* the closure state acc.
ProcessLine(lines, i, acc) ==
    LET line == lines[i]
        m    == headingMatch(line)
        body ==
            IF m.matched
            THEN LET in == processTokens(inlineTokens(m.content), acc)
                 IN  [in EXCEPT !.formattingRanges =
                          Append(@, FormatRange(Len(acc.plainText),
                                                Len(in.plainText), "heading",
                                                <<>>, m.level, TRUE))]
            ELSE IF TrimTruthy(line)
            THEN processTokens(inlineTokens(line), acc)
            ELSE acc
    IN  IF i < Len(lines) THEN [body EXCEPT !.plainText = @ \o <<NL>>]
        ELSE body

RECURSIVE ProcessLines(_, _, _)
ProcessLines(lines, i, acc) ==
    IF i > Len(lines) THEN acc
    ELSE ProcessLines(lines, i + 1, ProcessLine(lines, i, acc))

\* The named styles of headingStyles, by level.
headingStyles ==
    <<"HEADING_1", "HEADING_2", "HEADING_3", "HEADING_4", "HEADING_5",
      "HEADING_6">>

\* A request of a batch.  The fields a kind does not carry are absent
\* (NoTab, 0, empty).
Request(kind, tab, from, to, text, style, url) ==
    [kind |-> kind, tabId |-> tab, startIndex |-> from, endIndex |-> to,
     text |-> text, style |-> style, url |-> url]

\* The fields of the text style built for a range; a link takes its fields
\* only when its url is not empty (range.type === 'link' && range.url).
Fields(range) ==
    CASE range.type = "bold"   -> {"bold"}
      [] range.type = "italic" -> {"italic"}
      [] range.type = "code"   -> {"weightedFontFamily", "backgroundColor"}
      [] range.type = "link" /\ range.url # <<>>
                               -> {"link", "foregroundColor", "underline"}
      [] OTHER                 -> {}

\* The heading branch of the chain: reached by a range that took no fields.
IsHeadingRange(range) ==
    /\ Fields(range) = {}
    /\ range.type = "heading"
    /\ range.headingLevel # 0
    /\ range.isParagraph

\* The requests one range is lowered to at offset 0, whatever the offset.
LowerRangeUnshifted(range, at) ==
    IF range.type = "heading"
    THEN <<Request("updateParagraphStyle", NoTab, range.start, range.end,
                   <<>>, headingStyles[range.headingLevel], <<>>)>>
    ELSE IF range.type # "link" \/ range.url # <<>>
    THEN <<Request("updateTextStyle", NoTab, range.start, range.end, <<>>,
                   range.type, range.url)>>
    ELSE <<>>

\* One pass of the loop over formattingRanges: the requests pushed for one
\* range at insertion offset at.
LowerRange(range, at) ==
    IF IsHeadingRange(range)
    THEN <<Request("updateParagraphStyle", NoTab, at + range.start,
                   at + range.end, <<>>,
                   IF range.headingLevel \in DOMAIN headingStyles
                   THEN headingStyles[range.headingLevel]
                   ELSE "HEADING_1", <<>>)>>
    ELSE IF Fields(range) # {}
    THEN <<Request("updateTextStyle", NoTab, at + range.start,
                   at + range.end, <<>>, range.type, range.url)>>
    ELSE <<>>

\* The loop with each request put in front of those before it.
RECURSIVE GenerateRequestsReversed(_, _)
GenerateRequestsReversed(ranges, at) ==
    IF ranges = <<>> THEN <<>>
    ELSE GenerateRequestsReversed(Tail(ranges), at)
             \o LowerRange(Head(ranges), at)

\* The loop over formattingRanges: the requests, in the order of the ranges.
RECURSIVE GenerateRequests(_, _)
GenerateRequests(ranges, at) ==
    IF ranges = <<>> THEN <<>>
    ELSE LowerRange(Head(ranges), at) \o GenerateRequests(Tail(ranges), at)

\* parseMarkdownToDocsRequests(markdown, startIndex).
parseMarkdownToDocsRequests(md, at) ==
    LET acc == ProcessLines(Split(md), 1,
                            [plainText |-> <<>>, formattingRanges |-> <<>>])
    IN  [returned |-> TRUE, plainText |-> acc.plainText,
         formattingRanges |-> acc.formattingRanges,
         formattingRequests |-> GenerateRequests(acc.formattingRanges, at)]

\* processMarkdownLineBreaks: every run of two or more newlines
\* becomes two.
RECURSIVE processMarkdownLineBreaks(_)
processMarkdownLineBreaks(text) ==
    IF text = <<>> THEN <<>>
    ELSE IF Len(text) >= 3 /\ text[1] = NL /\ text[2] = NL /\ text[3] = NL
    THEN processMarkdownLineBreaks(Tail(text))
    ELSE <<Head(text)>> \o processMarkdownLineBreaks(Tail(text))

\* ------------------------------------------------ the replacement planner
\* Lines 672-720 of _generateReplacementRequests: the updateTextStyle
\* requests among originalFormattingRequests, re-anchored at
\* adjustedPosition and stamped with the tab; other requests are skipped.
RECURSIVE ReanchorFormatting(_, _, _)
ReanchorFormatting(fmt, tab, adjustedPosition) ==
    IF fmt = <<>> THEN <<>>
    ELSE LET formatRequest == Head(fmt)
             adjusted ==
                 [formatRequest EXCEPT
                      !.tabId = tab,
                      !.startIndex = @ + adjustedPosition,
                      !.endIndex = @ + adjustedPosition]
         IN  (IF formatRequest.kind = "updateTextStyle"
              THEN <<adjusted>> ELSE <<>>)
             \o ReanchorFormatting(Tail(fmt), tab, adjustedPosition)

OccurrenceRequestsInsertFirst(adjustedPosition, tab, find, processedText, fmt) ==
    <<Request("insertText", tab, adjustedPosition, 0, processedText, "",
              <<>>),
      Request("deleteContentRange", tab, adjustedPosition,
              adjustedPosition + Len(find), <<>>, "", <<>>)>>
    \o ReanchorFormatting(fmt, tab, adjustedPosition)

\* The requests pushed for one occurrence at adjustedPosition.
OccurrenceRequests(adjustedPosition, tab, find, processedText, fmt) ==
    <<Request("deleteContentRange", tab, adjustedPosition,
              adjustedPosition + Len(find), <<>>, "", <<>>),
      Request("insertText", tab, adjustedPosition, 0, processedText, "",
              <<>>)>>
    \o ReanchorFormatting(fmt, tab, adjustedPosition)

\* The loop over the occurrences from the i-th on, cumulativeOffset being
\* what the earlier passes added.
RECURSIVE PlanOccurrencesNoOffset(_, _, _, _, _, _, _)
PlanOccurrencesNoOffset(occs, i, cumulativeOffset, tab, find, processedText, fmt) ==
    IF i > Len(occs) THEN <<>>
    ELSE OccurrenceRequests(occs[i], tab, find, processedText, fmt)
         \o PlanOccurrencesNoOffset(occs, i + 1, 0, tab, find,
                                    processedText, fmt)

RECURSIVE PlanOccurrences(_, _, _, _, _, _, _)
PlanOccurrences(occs, i, cumulativeOffset, tab, find, processedText, fmt) ==
    IF i > Len(occs) THEN <<>>
    ELSE LET lengthDiff == Len(processedText) - Len(find)
             adjustedPosition == occs[i] + cumulativeOffset
         IN  OccurrenceRequests(adjustedPosition, tab, find, processedText,
                                fmt)
             \o PlanOccurrences(occs, i + 1, cumulativeOffset + lengthDiff,
                                tab, find, processedText, fmt)

\* ---------------------------------------------------------------- inputs
\* The characters of the document texts and of findText.
Chars == {"a", "b"}

\* The document, the findText and the replacement of the offset example.
HelloText ==
    <<"H", "e", "l", "l", "o", " ", "w", "o", "r", "l", "d", "!", " ",
      "H", "e", "l", "l", "o", " ", "a", "g", "a", "i", "n", "!">>
Hello == <<"H", "e", "l", "l", "o">>
Hi == <<"H", "i">>

\* A tab of a document: its id and the text of its body
\* (_getFullDocumentText of its content).
Tab(id, text) == [tabId |-> id, text |-> text]

Texts == StringsUpTo(Chars, MaxLen) \cup {HelloText}
SecondTexts == {<<"a", "a">>, <<"b", "a", "b">>}

\* The documents: no tab, one tab, two tabs.
Documents ==
    {<<>>}
    \cup {<<Tab("t.0", x)>> : x \in Texts}
    \cup {<<Tab("t.0", x), Tab("t.1", y)>> : x \in Texts, y \in SecondTexts}

FindTexts == StringsUpTo(Chars, MaxFind) \cup {Hello}

\* The replacement markdowns: empty, plain (shorter, equal, longer than a
\* findText), a bold word after a plain one, a heading with an italic
\* word, and three newlines in a row.
ReplaceTexts ==
    {<<>>, <<"b">>, <<"a", "a">>, Hi,
     <<"a", "*", "*", "b", "*", "*">>,
     <<"#", " ", "*", "b", "*">>,
     <<"a", NL, NL, NL, "b">>}

\* The tabId of the request: none, the first tab, the second, an unknown one.
TabIdArgs == {NoTab, "t.0", "t.1", "t.9"}

\* A scan that recorded more occurrences than a text has characters is
\* not followed further.
MaxOcc == MaxLen + 1

\* The Auth Manager at rest beside a Docs call.
AuthIdle ==
    /\ stored = AbsentCred
    /\ hadRT = FALSE
    /\ client = Undef
    /\ constructed = 0
    /\ listeners = 0
    /\ lastKnown = AbsentCred
    /\ credsLoaded = FALSE
    /\ now = 1
    /\ pc = [c \in Callers |-> "idle"]
    /\ op = [c \in Callers |-> "none"]
    /\ snap = [c \in Callers |-> AbsentCred]
    /\ result = [c \in Callers |-> "none"]
    /\ call = [c \in Callers |-> NoCall]
    /\ lpc = "idle"
    /\ lmerged = AbsentCred
    /\ workload = [callers |-> {}, events |-> FALSE]

\* The text item of a result: JSON.stringify({ error: errorMessage }), a
\* JSON object of the outcome, a plain text.
ErrorEnvelope(message) == [kind |-> "error", body |-> message]
JsonEnvelope(body) == [kind |-> "json", body |-> body]
TextEnvelope(body) == [kind |-> "text", body |-> body]

\* The message of the error thrown for a tabId that names no tab, and the
\* message of a rejected remote call.
TabNotFound(id) == <<"Tab with ID ", id, " not found.">>
ApiError == <<"API Error">>

\* A replaceText request arrives.
ReplaceInit ==
    /\ AuthIdle
    /\ OpsIdle
    /\ method = "replaceText"
    /\ lastEndIndex = <<>>
    /\ envelope = NoEnvelope
    /\ markdown \in ReplaceTexts
    /\ startIndex = 0
    /\ parsed = NotParsed
    /\ tabs \in Documents
    /\ findText \in FindTexts
    /\ tabId \in TabIdArgs
    /\ dpc = "idle"
    /\ scanned = <<>>
    /\ cur = 0
    /\ searchIndex = 0
    /\ occurrences = <<>>
    /\ plans = <<>>
    /\ found = <<>>
    /\ requests = <<>>
    /\ sent = <<>>
    /\ response = "none"

\* --------------------------------------------------- replaceText, by step
\* The tabs of the document with the id of the request.
TabsWithId(id) == {k \in 1..Len(tabs) : tabs[k].tabId = id}

\* tabs.find(...): the first tab with the id.
FindTab(id) == tabs[CHOOSE k \in TabsWithId(id) : \A j \in TabsWithId(id) : k <= j]

\* The scan of the next tab starts, or the batch is ready.
StartScan(list, k) ==
    IF k <= Len(list)
    THEN /\ dpc' = "scan"
         /\ cur' = k
    ELSE /\ dpc' = "batch"
         /\ cur' = cur

\* replaceText up to the first planner call: the replacement is compiled at
\* offset 0 and the document is read; a tabId that names no tab throws, and
\* the catch returns the error.
ReplaceTextBeginAllTabs ==
    /\ dpc = "idle"
    /\ parsed' = parseMarkdownToDocsRequests(markdown, 0)
    /\ scanned' = tabs
    /\ StartScan(tabs, 1)
    /\ UNCHANGED <<markdown, startIndex, tabs, findText, tabId, searchIndex,
                   occurrences, plans, found, requests, sent, response>>
    /\ UNCHANGED editVars

ReplaceTextBegin ==
    /\ dpc = "idle"
    /\ parsed' = parseMarkdownToDocsRequests(markdown, 0)
    /\ IF tabId # NoTab /\ TabsWithId(tabId) = {}
       THEN /\ response' = "error"
            /\ envelope' = ErrorEnvelope(TabNotFound(tabId))
            /\ dpc' = "done"
            /\ UNCHANGED <<scanned, cur>>
       ELSE /\ scanned' = IF tabId # NoTab THEN <<FindTab(tabId)>> ELSE tabs
            /\ StartScan(scanned', 1)
            /\ UNCHANGED <<response, envelope>>
    /\ UNCHANGED <<method, lastEndIndex>>
    /\ UNCHANGED <<markdown, startIndex, tabs, findText, tabId, searchIndex,
                   occurrences, plans, found, sent, requests>>

\* One pass of the while loop of the scan whose indexOf found a match: the
\* index is recorded and the search resumes after the match.
ScanFoundOverlapping ==
    /\ dpc = "scan"
    /\ Len(occurrences) < MaxOcc
    /\ LET at == IndexOf(scanned[cur].text, findText, searchIndex)
       IN  /\ at # -1
           /\ occurrences' = Append(occurrences, at + 1)
           /\ searchIndex' = at + 1
    /\ UNCHANGED <<markdown, startIndex, parsed, tabs, findText, tabId, dpc,
                   scanned, cur, plans, found, requests, sent, response>>

ScanFound ==
    /\ dpc = "scan"
    /\ Len(occurrences) < MaxOcc
    /\ LET at == IndexOf(scanned[cur].text, findText, searchIndex)
       IN  /\ at # -1
           /\ occurrences' = Append(occurrences, at + 1)
           /\ searchIndex' = at + Len(findText)
    /\ UNCHANGED <<markdown, startIndex, parsed, tabs, findText, tabId, dpc,
                   scanned, cur, plans, found, requests, sent, response>>

\* The pass whose indexOf found nothing: the scan is over.
ScanEnd ==
    /\ dpc = "scan"
    /\ IndexOf(scanned[cur].text, findText, searchIndex) = -1
    /\ dpc' = "plan"
    /\ UNCHANGED <<markdown, startIndex, parsed, tabs, findText, tabId,
                   scanned, cur, searchIndex, occurrences, plans, found,
                   requests, sent, response>>

\* processedText of replaceText: the compiled plain text with its newline
\* runs collapsed.
processedText == processMarkdownLineBreaks(parsed.plainText)

\* The rest of _generateReplacementRequests and the push of its result:
\* the requests of the occurrences of this tab join the batch, and the
\* next tab is scanned from the start.
PlanTab ==
    /\ dpc = "plan"
    /\ LET tabRequests ==
               PlanOccurrences(occurrences, 1, 0, scanned[cur].tabId,
                               findText, processedText,
                               parsed.formattingRequests)
       IN  /\ requests' = requests \o tabRequests
           /\ plans' = Append(plans, tabRequests)
    /\ found' = Append(found, occurrences)
    /\ searchIndex' = 0
    /\ occurrences' = <<>>
    /\ StartScan(scanned, cur + 1)
    /\ UNCHANGED <<markdown, startIndex, parsed, tabs, findText, tabId,
                   scanned, sent, response>>

\* The end of replaceText: one batchUpdate when there are requests, then
\* the success result.
BatchOkAlways ==
    /\ dpc = "batch"
    /\ sent' = Append(sent, requests)
    /\ response' = "success"
    /\ envelope' = TextEnvelope(<<"Successfully replaced text in document">>)
    /\ dpc' = "done"
    /\ UNCHANGED <<method, lastEndIndex>>
    /\ UNCHANGED <<markdown, startIndex, parsed, tabs, findText, tabId,
                   scanned, cur, searchIndex, occurrences, plans, found,
                   requests>>

BatchOk ==
    /\ dpc = "batch"
    /\ sent' = IF requests # <<>> THEN Append(sent, requests) ELSE sent
    /\ response' = "success"
    /\ envelope' = TextEnvelope(<<"Successfully replaced text in document">>)
    /\ dpc' = "done"
    /\ UNCHANGED <<method, lastEndIndex>>
    /\ UNCHANGED <<markdown, startIndex, parsed, tabs, findText, tabId,
                   scanned, cur, searchIndex, occurrences, plans, found,
                   requests>>

\* The batchUpdate is rejected: the catch returns the error.
BatchFail ==
    /\ dpc = "batch"
    /\ requests # <<>>
    /\ sent' = Append(sent, requests)
    /\ response' = "error"
    /\ envelope' = ErrorEnvelope(ApiError)
    /\ dpc' = "done"
    /\ UNCHANGED <<method, lastEndIndex>>
    /\ UNCHANGED <<markdown, startIndex, parsed, tabs, findText, tabId,
                   scanned, cur, searchIndex, occurrences, plans, found,
                   requests>>

ReplaceNext ==
    \/ ReplaceTextBegin /\ UNCHANGED <<authVars, opsVars>>
    \/ ScanFound /\ UNCHANGED <<authVars, editVars, opsVars>>
    \/ ScanEnd /\ UNCHANGED <<authVars, editVars, opsVars>>
    \/ PlanTab /\ UNCHANGED <<authVars, editVars, opsVars>>
    \/ BatchOk /\ UNCHANGED <<authVars, opsVars>>
    \/ BatchFail /\ UNCHANGED <<authVars, opsVars>>

SpecReplace == ReplaceInit /\ [][ReplaceNext]_vars

\* ======================================================================
\* Properties of the replacement planner
\* ======================================================================

\* The request is over.
Replaced == dpc = "done"

\* C11: for every document text, the occurrence scan called with an empty
\* findText ends having recorded no occurrence, so that the planner returns
\* an empty operation list: no scan of an empty findText ever records an
\* index, and none of its requests reaches the batch.
C11_EmptyFindTextScansNothing ==
    findText = <<>> => occurrences = <<>> /\ requests = <<>>

\* The buffer of a tab after one request: the character at 0-based position
\* p has index p + 1; a style request leaves the text alone.
ApplyRequest(buf, r) ==
    CASE r.kind = "deleteContentRange" ->
             SubSeq(buf, 1, r.startIndex - 1)
             \o SubSeq(buf, r.endIndex, Len(buf))
      [] r.kind = "insertText" ->
             SubSeq(buf, 1, r.startIndex - 1) \o r.text
             \o SubSeq(buf, r.startIndex, Len(buf))
      [] OTHER -> buf

\* The request addresses the buffer as it is when the request is applied.
InBuffer(buf, r) ==
    CASE r.kind = "deleteContentRange" ->
             1 <= r.startIndex /\ r.startIndex <= r.endIndex
             /\ r.endIndex <= Len(buf) + 1
      [] r.kind = "insertText" ->
             1 <= r.startIndex /\ r.startIndex <= Len(buf) + 1
      [] OTHER -> TRUE

\* The buffer after the requests, one after another; Invalid when one of
\* them addresses characters the buffer does not have.
Invalid == <<"invalid edit">>
RECURSIVE ApplyRequests(_, _)
ApplyRequests(buf, rs) ==
    IF rs = <<>> THEN buf
    ELSE IF ~InBuffer(buf, Head(rs)) THEN Invalid
    ELSE ApplyRequests(ApplyRequest(buf, Head(rs)), Tail(rs))

\* The text with every left-to-right non-overlapping occurrence of a
\* non-empty find replaced by with.
RECURSIVE ReplaceAll(_, _, _)
ReplaceAll(text, find, with) ==
    IF text = <<>> THEN <<>>
    ELSE IF StartsWithAt(text, find, 0)
    THEN with \o ReplaceAll(SubSeq(text, Len(find) + 1, Len(text)), find, with)
    ELSE <<Head(text)>> \o ReplaceAll(Tail(text), find, with)

\* C12: for every document text, non-empty findText and replacement, the
\* delete and insert requests the planner returned for a tab, applied in
\* order to the text of the tab, give the text with every left-to-right
\* non-overlapping occurrence of findText replaced by the processed
\* replacement.
C12_EditsApplyToReplacedText ==
    findText # <<>> =>
        \A k \in 1..Len(plans) :
            ApplyRequests(scanned[k].text, plans[k])
                = ReplaceAll(scanned[k].text, findText, processedText)

\* Reached: a tab with two or more occurrences was planned with a
\* replacement longer than findText, and the batch was sent.
C12_Witness ==
    /\ Replaced
    /\ findText # <<>>
    /\ \E k \in 1..Len(plans) : Len(found[k]) >= 2
    /\ Len(processedText) > Len(findText)
    /\ sent # <<>>

\* The requests the planner returned for tab k, cut into one block per
\* recorded occurrence: block i (from 0) of the blocks of equal length.
BlockLen(k) == Len(plans[k]) \div Len(found[k])
Block(k, i) == SubSeq(plans[k], i * BlockLen(k) + 1, (i + 1) * BlockLen(k))

\* A request is a compiled style request moved by a distance.
Reanchored(r, f, by) ==
    /\ r.kind = f.kind
    /\ r.style = f.style
    /\ r.url = f.url
    /\ r.startIndex = f.startIndex + by
    /\ r.endIndex = f.endIndex + by

IsStyleRequest(r) == r.kind \in {"updateTextStyle", "updateParagraphStyle"}

\* C13: for the i-th occurrence (from 0) with original index o, the planner
\* emits a delete of [o + i*d, o + i*d + len(findText)), then an insert of
\* the processed replacement at o + i*d, then style requests re-anchored at
\* o + i*d, with d = len(processedText) - len(findText); for the text
\* "Hello world! Hello again!", "Hello" and "Hi" the first delete is [1,6)
\* and the second occurrence is adjusted to 11.
C13_OccurrenceBlocks ==
    findText # <<>> =>
        \A k \in 1..Len(plans) :
            LET d == Len(processedText) - Len(findText)
                n == Len(found[k])
            IN  /\ n = 0 => plans[k] = <<>>
                /\ n > 0 =>
                     /\ Len(plans[k]) = n * BlockLen(k)
                     /\ BlockLen(k) >= 2
                     /\ \A i \in 0..(n - 1) :
                          LET at == found[k][i + 1] + i * d
                              b  == Block(k, i)
                          IN  /\ b[1].kind = "deleteContentRange"
                              /\ b[1].startIndex = at
                              /\ b[1].endIndex = at + Len(findText)
                              /\ b[2].kind = "insertText"
                              /\ b[2].startIndex = at
                              /\ b[2].text = processedText
                              /\ \A j \in 3..Len(b) :
                                   /\ IsStyleRequest(b[j])
                                   /\ \E f \in 1..Len(parsed.formattingRequests) :
                                        Reanchored(b[j],
                                                   parsed.formattingRequests[f],
                                                   at)
                /\ (scanned[k].text = HelloText /\ findText = Hello
                    /\ markdown = Hi) =>
                     /\ plans[k][1].startIndex = 1
                     /\ plans[k][1].endIndex = 6
                     /\ plans[k][3].kind = "deleteContentRange"
                     /\ plans[k][3].startIndex = 11

\* Reached: the example was planned, and the second occurrence of "Hello"
\* (index 14) was moved by -3.
C13_Witness ==
    /\ Replaced
    /\ findText = Hello
    /\ markdown = Hi
    /\ \E k \in 1..Len(plans) :
         /\ scanned[k].text = HelloText
         /\ found[k] = <<1, 14>>
         /\ Len(plans[k]) = 4

\* The indices (0-based position + 1) of the matches of a non-empty find in
\* text, met going right from position p one character at a time and
\* going on after the end of each match.
RECURSIVE Matches(_, _, _)
Matches(text, find, p) ==
    IF p + Len(find) > Len(text) THEN <<>>
    ELSE IF StartsWithAt(text, find, p)
    THEN <<p + 1>> \o Matches(text, find, p + Len(find))
    ELSE Matches(text, find, p + 1)

IsPrefix(s, t) == Len(s) <= Len(t) /\ s = SubSeq(t, 1, Len(s))

\* The recorded indices are matches, apart by at least the length of
\* findText.
Apart(text, find, occs) ==
    /\ \A i \in 1..Len(occs) : StartsWithAt(text, find, occs[i] - 1)
    /\ \A i \in 1..(Len(occs) - 1) : occs[i + 1] - occs[i] >= Len(find)

\* C14: for every document text and non-empty findText, the occurrences
\* recorded are exactly the matches of a left-to-right scan resuming at the
\* end of the previous match: each is the 0-based position of a match plus
\* 1, consecutive ones differ by at least len(findText), none overlap;
\* while the scan runs, what it recorded is the start of that list.
C14_OccurrencesAreTheMatches ==
    findText # <<>> =>
        /\ \A k \in 1..Len(found) :
             /\ found[k] = Matches(scanned[k].text, findText, 0)
             /\ Apart(scanned[k].text, findText, found[k])
        /\ dpc \in {"scan", "plan"} =>
             /\ IsPrefix(occurrences, Matches(scanned[cur].text, findText, 0))
             /\ Apart(scanned[cur].text, findText, occurrences)
        /\ dpc = "plan" =>
             occurrences = Matches(scanned[cur].text, findText, 0)

\* Reached: in "aaaa" the scan for "aa" recorded the matches at positions 0
\* and 2 and passed over the overlapping ones at 1; in the second tab it
\* recorded one more.
C14_Witness ==
    /\ Replaced
    /\ findText = <<"a", "a">>
    /\ Len(found) = 2
    /\ scanned[1].text = <<"a", "a", "a", "a">>
    /\ found[1] = <<1, 3>>
    /\ found[2] = <<1>>

\* C15: for every occurrence, every style request that compiling the
\* replacement at offset 0 produced, text style and heading paragraph style
\* alike, is emitted once after the insert of that occurrence, in the
\* compiled order, with the adjusted position added to its start and its
\* end.
C15_EveryStyleRequestReanchored ==
    findText # <<>> =>
        \A k \in 1..Len(plans) :
            LET d   == Len(processedText) - Len(findText)
                n   == Len(found[k])
                fmt == parsed.formattingRequests
            IN  /\ Len(plans[k]) = n * (2 + Len(fmt))
                /\ \A i \in 0..(n - 1) : \A j \in 1..Len(fmt) :
                     LET r == plans[k][i * (2 + Len(fmt)) + 2 + j]
                     IN  /\ Reanchored(r, fmt[j], found[k][i + 1] + i * d)
                         /\ r.tabId = scanned[k].tabId

\* When findText occurs in no scanned tab.
OccursNowhere ==
    \A k \in 1..Len(scanned) : IndexOf(scanned[k].text, findText, 0) = -1

\* The tab lookup of the request did not throw.
TabResolved == tabId = NoTab \/ TabsWithId(tabId) # {}

\* C16: when findText occurs in none of the tabs scanned, the planner
\* returns an empty list for each of them, replaceText issues no
\* batchUpdate and returns its success result.
C16_NoOccurrenceNoBatch ==
    (Replaced /\ TabResolved /\ OccursNowhere) =>
        /\ \A k \in 1..Len(plans) : plans[k] = <<>>
        /\ Len(plans) = Len(scanned)
        /\ requests = <<>>
        /\ sent = <<>>
        /\ response = "success"

\* Reached: two tabs were scanned for a findText that is in neither, and
\* the request ended.
C16_Witness ==
    /\ Replaced
    /\ findText # <<>>
    /\ Len(scanned) = 2
    /\ OccursNowhere
    /\ found = <<<<>>, <<>>>>
    /\ response = "success"

\* Every request of a list carries the tab id.
AllCarry(rs, id) == \A j \in 1..Len(rs) : rs[j].tabId = id

\* The lists of a sequence, one after another.
RECURSIVE Flatten(_)
Flatten(lists) ==
    IF lists = <<>> THEN <<>> ELSE Head(lists) \o Flatten(Tail(lists))

\* C17: given a tabId, replaceText scans only the tab with that id and
\* every delete, insert and style request carries it; given none, the
\* planner runs once per tab of the document, the requests of each tab
\* carry the id of that tab and start from a cumulative offset of 0 (the
\* first delete is at the first recorded index), and the results are
\* joined in tab order into the one batch sent.
C17_TabScoping ==
    /\ (tabId # NoTab /\ dpc # "idle" /\ TabResolved) =>
         /\ Len(scanned) = 1
         /\ scanned[1] \in {tabs[k] : k \in 1..Len(tabs)}
         /\ scanned[1].tabId = tabId
         /\ Len(plans) <= 1
         /\ AllCarry(requests, tabId)
    /\ (tabId # NoTab /\ ~TabResolved) => scanned = <<>> /\ requests = <<>>
    /\ (tabId = NoTab /\ dpc # "idle") => scanned = tabs
    /\ \A k \in 1..Len(plans) :
         /\ AllCarry(plans[k], scanned[k].tabId)
         /\ (findText # <<>> /\ plans[k] # <<>>) =>
              plans[k][1].startIndex = found[k][1]
    /\ requests = Flatten(plans)
    /\ dpc \in {"batch", "done"} => Len(plans) = Len(scanned)
    /\ Replaced => sent \in {<<>>, <<requests>>}

\* Reached: with no tabId both tabs of a document were planned, each with
\* occurrences, after a replacement that changes the length; and the batch
\* was sent.
C17_Witness ==
    /\ Replaced
    /\ tabId = NoTab
    /\ Len(tabs) = 2
    /\ Len(plans) = 2
    /\ plans[1] # <<>>
    /\ plans[2] # <<>>
    /\ Len(found[1]) >= 2
    /\ Len(processedText) # Len(findText)
    /\ parsed.formattingRequests # <<>>
    /\ sent = <<requests>>

\* ======================================================================
\* The markdown compiler called on its own
\* ======================================================================

\* The inline fragments a line is made of: a letter, a space, a bold, an
\* italic and a code word, a link and a link with an empty url.
InlineFrags ==
    {<<"a">>, <<" ">>,
     <<"*", "*", "b", "*", "*">>,
     <<"*", "b", "*">>,
     <<Backquote, "b", Backquote>>,
     <<"[", "b", "]", "(", "u", ")">>,
     <<"[", "b", "]", "(", ")">>}

\* Two fragments that, side by side, would run their delimiters together.
Clash(f, g) == Head(f) = Head(g) /\ Head(f) \in {"*", Backquote}

\* The line bodies: up to MaxFrags fragments side by side.
BodyParts ==
    {fs \in UNION {[1..k -> InlineFrags] : k \in 0..MaxFrags} :
        \A j \in 1..(Len(fs) - 1) : ~Clash(fs[j], fs[j + 1])}

RECURSIVE Concat(_)
Concat(parts) ==
    IF parts = <<>> THEN <<>> ELSE Head(parts) \o Concat(Tail(parts))

\* k hashes.
Hashes(k) == [j \in 1..k |-> "#"]

\* The first lines: an optional leading space, no to seven hashes, an
\* optional space, a body.
FirstLines ==
    {lead \o Hashes(k) \o sep \o Concat(fs) :
        lead \in {<<>>, <<" ">>}, k \in 0..(HeadingMax + 1),
        sep \in {<<>>, <<" ">>}, fs \in BodyParts}

\* What follows the first line: nothing, a newline, a heading line, a blank
\* line and a bold word, two empty lines and a bold phrase with an italic
\* word in it, a link over a bold word.
Tails ==
    {<<>>,
     <<NL>>,
     <<NL, "#", " ", "a">>,
     <<NL, " ", NL, "*", "*", "b", "*", "*">>,
     <<NL, NL, NL, "*", "*", "a", "*", "b", "*", "c", "*", "*">>,
     <<NL, "[", "*", "*", "b", "*", "*", "]", "(", "u", ")">>}

\* The markdown of the end-to-end example, compiled at offset 1.
HelloWorldMd ==
    <<"H", "e", "l", "l", "o", " ", "*", "*", "w", "o", "r", "l", "d", "*",
      "*">>

Markdowns == {l \o t : l \in FirstLines, t \in Tails} \cup {HelloWorldMd}

\* The insertion offsets: 0 (replaceText) and 1 (the start of a body).
Offsets == {0, 1}

\* parseMarkdownToDocsRequests is about to be called.
MarkdownInit ==
    /\ AuthIdle
    /\ EditIdle
    /\ OpsIdle
    /\ markdown \in Markdowns
    /\ startIndex \in Offsets
    /\ parsed = NotParsed
    /\ tabs = <<>>
    /\ findText = <<>>
    /\ tabId = NoTab
    /\ dpc = "idle"
    /\ scanned = <<>>
    /\ cur = 0
    /\ searchIndex = 0
    /\ occurrences = <<>>
    /\ plans = <<>>
    /\ found = <<>>
    /\ requests = <<>>
    /\ sent = <<>>
    /\ response = "none"

\* The call returns.
ParseMarkdown ==
    /\ ~parsed.returned
    /\ parsed' = parseMarkdownToDocsRequests(markdown, startIndex)
    /\ UNCHANGED <<markdown, startIndex, tabs, findText, tabId, dpc, scanned,
                   cur, searchIndex, occurrences, plans, found, requests,
                   sent, response>>

MarkdownNext == ParseMarkdown /\ UNCHANGED <<authVars, editVars, opsVars>>

SpecMarkdown == MarkdownInit /\ [][MarkdownNext]_vars

\* ======================================================================
\* Properties of the markdown compiler
\* ======================================================================

\* The lines of the markdown, and the plain text they contributed: the
\* plain text cut at its newlines.
Lines == Split(markdown)
PlainLines == Split(parsed.plainText)

\* Where the plain text of line i starts and ends in plainText.
RECURSIVE SpanStart(_)
SpanStart(i) ==
    IF i = 1 THEN 0 ELSE SpanStart(i - 1) + Len(PlainLines[i - 1]) + 1
SpanEnd(i) == SpanStart(i) + Len(PlainLines[i])

IsTextStyle(r) == r.kind = "updateTextStyle"
IsParagraphStyle(r) == r.kind = "updateParagraphStyle"
TextOps == SelectSeq(parsed.formattingRequests, IsTextStyle)
ParagraphOps == SelectSeq(parsed.formattingRequests, IsParagraphStyle)

\* The ranges that are not heading ranges, and those among them that carry
\* a style: all but a link whose url is empty.
IsInlineRange(r) == r.type \in {"bold", "italic", "code", "link"}
IsStyledRange(r) == IsInlineRange(r) /\ (r.type = "link" => r.url # <<>>)
IsEmptyLink(r) == r.type = "link" /\ r.url = <<>>

\* The text style requests are those of the ranges rs, one each, in order,
\* over the range moved by the insertion offset.
OneRequestEach(rs) ==
    /\ Len(TextOps) = Len(rs)
    /\ \A j \in 1..Len(rs) :
         /\ TextOps[j].startIndex = startIndex + rs[j].start
         /\ TextOps[j].endIndex = startIndex + rs[j].end
         /\ TextOps[j].style = rs[j].type
         /\ TextOps[j].url = rs[j].url

\* C18 as stated: every range of kind bold, italic, code or link, a link
\* with an empty url included, yields exactly one updateTextStyle request
\* over [offset+start, offset+end), so that there are as many requests as
\* such ranges.
C18_EveryInlineRangeOneRequest ==
    parsed.returned =>
        OneRequestEach(SelectSeq(parsed.formattingRanges, IsInlineRange))

\* C18, amended: every bold, italic and code range, and every link range
\* whose url is not empty, yields exactly one updateTextStyle request over
\* [offset+start, offset+end); a link range whose url is empty yields
\* none; "Hello **world**" at offset 1 gives "Hello world" and one bold
\* request over [7,12).
C18_StyledRangesOneRequest ==
    parsed.returned =>
        /\ OneRequestEach(SelectSeq(parsed.formattingRanges, IsStyledRange))
        /\ (markdown = HelloWorldMd /\ startIndex = 1) =>
             /\ parsed.plainText
                  = <<"H", "e", "l", "l", "o", " ", "w", "o", "r", "l", "d">>
             /\ parsed.formattingRequests
                  = <<Request("updateTextStyle", NoTab, 7, 12, <<>>, "bold",
                              <<>>)>>

\* Reached: compiled at offset 1, a line with a link whose url is empty
\* next to a styled word gave one request, for the word.
C18_Witness ==
    /\ parsed.returned
    /\ startIndex = 1
    /\ Len(parsed.formattingRanges) = 2
    /\ IsEmptyLink(parsed.formattingRanges[1])
    /\ parsed.formattingRanges[2].type = "bold"
    /\ Len(TextOps) = 1
    /\ TextOps[1].style = "bold"

\* The lines that match the heading pattern, in order.
HeadingLines == SelectSeq([i \in 1..Len(Lines) |-> i],
                          LAMBDA i : headingMatch(Lines[i]).matched)

\* The ranges and requests of the inline styles of a string processed as
\* inline content on its own, at an offset.
InlineOf(src) ==
    processTokens(inlineTokens(src),
                  [plainText |-> <<>>, formattingRanges |-> <<>>])
InlineRequests(src, at) == GenerateRequests(InlineOf(src).formattingRanges, at)

\* A sequence is found, in order and side by side, inside another.
Within(part, whole) ==
    \E from \in 0..(Len(whole) - Len(part)) :
        part = SubSeq(whole, from + 1, from + Len(part))

\* C19: for every line that matches the heading pattern with k hashes, the
\* compiler emits exactly one updateParagraphStyle request, with the named
\* style HEADING_k, over the span of the plain text of the line moved by
\* the insertion offset; it emits no updateTextStyle request for the
\* heading range itself, and it emits the requests of the inline styles
\* inside the heading.
C19_HeadingLinesOneParagraphRequest ==
    parsed.returned =>
        /\ Len(PlainLines) = Len(Lines)
        /\ Len(ParagraphOps) = Len(HeadingLines)
        /\ \A h \in 1..Len(HeadingLines) :
             LET i == HeadingLines[h]
                 k == LeadingHashes(Lines[i])
                 p == ParagraphOps[h]
             IN  /\ k \in HeadingMin..HeadingMax
                 /\ p.style = headingStyles[k]
                 /\ p.startIndex = startIndex + SpanStart(i)
                 /\ p.endIndex = startIndex + SpanEnd(i)
                 /\ Within(InlineRequests(headingMatch(Lines[i]).content,
                                          startIndex + SpanStart(i)),
                           parsed.formattingRequests)
        /\ Len(TextOps) + Len(ParagraphOps) = Len(parsed.formattingRequests)
        /\ \A j \in 1..Len(TextOps) : TextOps[j].style # "heading"
        /\ Len(TextOps)
             = Len(SelectSeq(parsed.formattingRanges, IsStyledRange))

\* Reached: a level-3 heading with an italic word, compiled at offset 1,
\* followed by a level-1 heading on the next line.
C19_Witness ==
    /\ parsed.returned
    /\ startIndex = 1
    /\ markdown = <<"#", "#", "#", " ", "*", "b", "*", NL, "#", " ", "a">>
    /\ Len(ParagraphOps) = 2
    /\ ParagraphOps[1].style = "HEADING_3"
    /\ ParagraphOps[2].style = "HEADING_1"
    /\ ParagraphOps[2].startIndex = 3
    /\ Len(TextOps) = 1

\* A line with hashes that does not have the shape of a heading: it does
\* not start with a hash, or it starts with more than six, or what follows
\* its hashes is not a whitespace character and at least one character
\* more.
HasHash(line) == \E j \in 1..Len(line) : line[j] = "#"
HeadingShape(line) ==
    LET k == LeadingHashes(line)
    IN  /\ k >= HeadingMin
        /\ k <= HeadingMax
        /\ Len(line) >= k + 2
        /\ IsSpace(line[k + 1])

\* C20: a line that starts with seven or more hashes, or whose hashes are
\* not at the start of the line followed by whitespace and content, is
\* never a heading: no updateParagraphStyle request is emitted over it, and
\* the whole line, hashes included, is processed as inline content.
C20_OtherHashLinesAreInline ==
    parsed.returned =>
        /\ Len(PlainLines) = Len(Lines)
        /\ Len(ParagraphOps)
             = Cardinality({i \in 1..Len(Lines) : HeadingShape(Lines[i])})
        /\ \A i \in 1..Len(Lines) :
             (HasHash(Lines[i]) /\ ~HeadingShape(Lines[i])) =>
                 /\ PlainLines[i] = InlineOf(Lines[i]).plainText
                 /\ HasHash(PlainLines[i])
                 /\ Within(InlineRequests(Lines[i], startIndex + SpanStart(i)),
                           parsed.formattingRequests)
                 /\ \A j \in 1..Len(ParagraphOps) :
                      \/ ParagraphOps[j].endIndex <= startIndex + SpanStart(i)
                      \/ ParagraphOps[j].startIndex >= startIndex + SpanEnd(i)

\* Reached: a line of seven hashes, a space and a bold word was compiled as
\* inline content, and the heading on the line after it got the only
\* paragraph request.
C20_Witness ==
    /\ parsed.returned
    /\ markdown = Hashes(HeadingMax + 1) \o <<" ", "*", "*", "b", "*", "*">>
                    \o <<NL, "#", " ", "a">>
    /\ PlainLines[1] = Hashes(HeadingMax + 1) \o <<" ", "b">>
    /\ Len(ParagraphOps) = 1
    /\ ParagraphOps[1].startIndex = startIndex + SpanStart(2)
    /\ Len(TextOps) = 1

\* ----------------------------------------------- order, nesting, text
\* The operations of the compiler, and the range of one.
Ops == parsed.formattingRequests
Encloses(r, q) == r.startIndex <= q.startIndex /\ q.endIndex <= r.endIndex

\* C21 as stated: the operations are in increasing position order, the
\* start index of each not smaller than the start index of the one before
\* it, also for nested inline spans and inline spans inside a heading.
C21_StartsNeverDecrease ==
    parsed.returned =>
        \A j \in 2..Len(Ops) : Ops[j].startIndex >= Ops[j - 1].startIndex

\* C21, amended: the operations are in the order in which their spans end:
\* the end index of each is not smaller than the end index of the one
\* before it, and an operation starts before the one before it only when
\* its span encloses that one (an inline span around a nested one, the
\* heading around the inline spans of its line).
C21_EndsNeverDecrease ==
    parsed.returned =>
        \A j \in 2..Len(Ops) :
            /\ Ops[j].endIndex >= Ops[j - 1].endIndex
            /\ Ops[j].startIndex < Ops[j - 1].startIndex =>
                   /\ Encloses(Ops[j], Ops[j - 1])
                   /\ Ops[j].kind = "updateParagraphStyle"
                        \/ Ops[j].style \in {"bold", "italic", "link"}

\* Reached: a heading whose italic word comes after a letter, followed by
\* the bold phrase with an italic word in it: the heading operation starts
\* before the italic one, the bold one before the italic one inside it.
C21_Witness ==
    /\ parsed.returned
    /\ Len(Ops) = 4
    /\ Ops[1].style = "italic"
    /\ Ops[2].kind = "updateParagraphStyle"
    /\ Ops[2].startIndex < Ops[1].startIndex
    /\ Ops[3].style = "italic"
    /\ Ops[4].style = "bold"
    /\ Ops[4].startIndex < Ops[3].startIndex

\* The inline ranges of one compile, in the order of their discovery.
InlineRanges == SelectSeq(parsed.formattingRanges, IsInlineRange)

\* Two ranges share a position of the plain text.
Share(r, q) == \E p \in 0..Len(parsed.plainText) :
                   /\ r.start <= p /\ p < r.end
                   /\ q.start <= p /\ p < q.end

\* The tokens that produce a range, and how many of them a token holds
\* below it.
IsSpan(token) == token.type \in {"strong", "em", "codespan", "link"}
RECURSIVE SpansIn(_)
SpansIn(tokens) ==
    IF tokens = <<>> THEN 0
    ELSE (IF IsSpan(Head(tokens)) THEN 1 ELSE 0)
         + (IF Head(tokens).nested THEN SpansIn(Head(tokens).tokens) ELSE 0)
         + SpansIn(Tail(tokens))

\* The pairs of a span and a span nested in it, at any depth.
RECURSIVE NestedPairs(_)
NestedPairs(tokens) ==
    IF tokens = <<>> THEN 0
    ELSE LET t == Head(tokens)
         IN  (IF t.nested
              THEN (IF IsSpan(t) THEN SpansIn(t.tokens) ELSE 0)
                   + NestedPairs(t.tokens)
              ELSE 0)
             + NestedPairs(Tail(tokens))

\* The inline content of a line: what follows the hashes of a heading, the
\* line itself otherwise, nothing for a blank line.
InlineContent(line) ==
    IF headingMatch(line).matched THEN headingMatch(line).content
    ELSE IF TrimTruthy(line) THEN line
    ELSE <<>>

RECURSIVE SumOver(_, _)
SumOver(F(_), lines) ==
    IF lines = <<>> THEN 0
    ELSE F(Head(lines)) + SumOver(F, Tail(lines))

\* C22 as stated: the inline ranges of one compile are pairwise disjoint,
\* no two of them sharing a position of the plain text, also when spans
\* are nested.
C22_InlineRangesDisjoint ==
    parsed.returned =>
        \A i, j \in 1..Len(InlineRanges) :
            i # j => ~Share(InlineRanges[i], InlineRanges[j])

\* C22, amended: two inline ranges of one compile share a position only
\* when the span of one is nested in the span of the other, and then the
\* inner range lies within the outer one and comes before it; the ranges
\* of spans that are not nested in one another are disjoint.
C22_InlineRangesDisjointOrNested ==
    parsed.returned =>
        LET sharing == {p \in (1..Len(InlineRanges)) \X (1..Len(InlineRanges)) :
                           /\ p[1] < p[2]
                           /\ Share(InlineRanges[p[1]], InlineRanges[p[2]])}
        IN  /\ \A p \in sharing :
                 /\ InlineRanges[p[2]].start <= InlineRanges[p[1]].start
                 /\ InlineRanges[p[1]].end <= InlineRanges[p[2]].end
            /\ Cardinality(sharing)
                 = SumOver(LAMBDA l : NestedPairs(inlineTokens(InlineContent(l))),
                           Lines)
            /\ Len(InlineRanges)
                 = SumOver(LAMBDA l : SpansIn(inlineTokens(InlineContent(l))),
                           Lines)

\* Reached: an italic word and a code word side by side on the first line
\* and, two empty lines on, a bold phrase around an italic word: four
\* ranges, of which only the last two share a position.
C22_Witness ==
    /\ parsed.returned
    /\ Len(InlineRanges) = 4
    /\ InlineRanges[1].type = "italic"
    /\ InlineRanges[2].type = "code"
    /\ ~Share(InlineRanges[1], InlineRanges[2])
    /\ InlineRanges[3].type = "italic"
    /\ InlineRanges[4].type = "bold"
    /\ Share(InlineRanges[3], InlineRanges[4])
    /\ InlineRanges[4].start < InlineRanges[3].start
    /\ InlineRanges[3].end < InlineRanges[4].end

\* The text a token contributes to the plain text: its own text, or the
\* texts of the tokens below it.
RECURSIVE TokenText(_)
RECURSIVE TokensText(_)
TokensText(tokens) ==
    IF tokens = <<>> THEN <<>>
    ELSE TokenText(Head(tokens)) \o TokensText(Tail(tokens))
TokenText(token) ==
    IF token.nested THEN TokensText(token.tokens) ELSE token.text

\* The texts of the spans among the tokens, a span after the spans nested
\* in it.
RECURSIVE SpanTexts(_)
SpanTexts(tokens) ==
    IF tokens = <<>> THEN <<>>
    ELSE LET t == Head(tokens)
         IN  (IF t.nested THEN SpanTexts(t.tokens) ELSE <<>>)
             \o (IF IsSpan(t) THEN <<TokenText(t)>> ELSE <<>>)
             \o SpanTexts(Tail(tokens))

\* The texts of the spans of a line, the heading being the last span of
\* its line, and those of all the lines.
LineSpanTexts(line) ==
    SpanTexts(inlineTokens(InlineContent(line)))
        \o (IF headingMatch(line).matched
            THEN <<TokensText(inlineTokens(InlineContent(line)))>>
            ELSE <<>>)
RECURSIVE AllSpanTexts(_)
AllSpanTexts(lines) ==
    IF lines = <<>> THEN <<>>
    ELSE LineSpanTexts(Head(lines)) \o AllSpanTexts(Tail(lines))

\* plainText[start:end].
Slice(text, start, end) == SubSeq(text, start + 1, end)

\* C23: every range of the compiler satisfies
\* 0 <= start <= end <= len(plainText), and plainText[start:end] is exactly
\* the text contributed by the span that produced the range.
C23_RangesCutTheSpanText ==
    parsed.returned =>
        /\ Len(parsed.formattingRanges) = Len(AllSpanTexts(Lines))
        /\ \A j \in 1..Len(parsed.formattingRanges) :
             LET r == parsed.formattingRanges[j]
             IN  /\ 0 <= r.start
                 /\ r.start <= r.end
                 /\ r.end <= Len(parsed.plainText)
                 /\ Slice(parsed.plainText, r.start, r.end)
                      = AllSpanTexts(Lines)[j]

\* Reached: a level-2 heading of a letter and a code word, then two empty
\* lines and the bold phrase: the heading range cuts the two characters of
\* its line, the bold range the three of the phrase, three newlines on.
C23_Witness ==
    /\ parsed.returned
    /\ Len(parsed.formattingRanges) = 4
    /\ parsed.formattingRanges[1].type = "code"
    /\ parsed.formattingRanges[2].type = "heading"
    /\ parsed.formattingRanges[2].headingLevel = 2
    /\ Slice(parsed.plainText, parsed.formattingRanges[2].start,
             parsed.formattingRanges[2].end) = <<"a", "b">>
    /\ parsed.formattingRanges[4].type = "bold"
    /\ parsed.formattingRanges[4].start = 5
    /\ Slice(parsed.plainText, 5, 8) = <<"a", "b", "c">>

\* The plain text of a line on its own.
LineText(line) == TokensText(inlineTokens(InlineContent(line)))

\* texts.join(NL).
RECURSIVE Join(_)
Join(texts) ==
    IF texts = <<>> THEN <<>>
    ELSE IF Len(texts) = 1 THEN texts[1]
    ELSE Head(texts) \o <<NL>> \o Join(Tail(texts))

\* The newlines of a text.
Newlines(text) == Cardinality({k \in 1..Len(text) : text[k] = NL})

\* C24: for a markdown of n lines, plainText is the plain texts of the
\* lines joined by exactly n-1 newlines: one newline after every line but
\* the last, an empty text for a blank line, no newline after the last
\* line.
C24_LinesJoinedByNewlines ==
    parsed.returned =>
        /\ parsed.plainText = Join([i \in 1..Len(Lines) |-> LineText(Lines[i])])
        /\ Newlines(parsed.plainText) = Len(Lines) - 1
        /\ \A i \in 1..Len(Lines) :
             ~TrimTruthy(Lines[i]) => PlainLines[i] = <<>>
        /\ Len(PlainLines) = Len(Lines)
        /\ PlainLines[Len(Lines)] = LineText(Lines[Len(Lines)])

\* Reached: a heading line, a line of one space and a bold word: three
\* lines, two newlines, the blank line empty, the text ending with the
\* word.
C24_Witness ==
    /\ parsed.returned
    /\ markdown = <<"#", " ", "a", NL, " ", NL, "*", "*", "b", "*", "*">>
    /\ parsed.plainText = <<"a", NL, NL, "b">>

\* ======================================================================
\* insertText, appendText and getText of the Docs service
\* ======================================================================

\* _addTabIdToFormattingRequests with the paragraph style requests left
\* without the tab.
addTabIdToTextStyleRequests(reqs, tab) ==
    IF tab = NoTab \/ reqs = <<>> THEN reqs
    ELSE [j \in 1..Len(reqs) |->
             IF reqs[j].kind \in {"updateTextStyle", "insertText"}
             THEN [reqs[j] EXCEPT !.tabId = tab]
             ELSE reqs[j]]

\* _addTabIdToFormattingRequests: with a tabId, every request gets it on
\* its range or location.
addTabIdToFormattingRequests(reqs, tab) ==
    IF tab = NoTab \/ reqs = <<>> THEN reqs
    ELSE [j \in 1..Len(reqs) |->
             IF reqs[j].kind \in {"updateTextStyle", "updateParagraphStyle",
                                  "insertText"}
             THEN [reqs[j] EXCEPT !.tabId = tab]
             ELSE reqs[j]]

\* The batch of insertText and appendText: the insert of the processed
\* text at locationIndex, then the formatting requests if there are any.
EditRequests(locationIndex, tab, compiled) ==
    <<Request("insertText", tab, locationIndex, 0,
              processMarkdownLineBreaks(compiled.plainText), "", <<>>)>>
    \o (IF Len(compiled.formattingRequests) > 0
        THEN addTabIdToFormattingRequests(compiled.formattingRequests, tab)
        ELSE <<>>)

\* ---------------------------------------------------------------- inputs
\* The end index of the last element of a tab: 0 for a tab with no
\* content (or no endIndex), else the index; 10 is the end of the example.
NoContent == 0
ExampleEndIndex == 10
EndIndexes == {NoContent, 1, 2, ExampleEndIndex}

\* The text arguments: empty, plain, a bold word after a letter, a heading
\* with an italic word, a styled word after two and after three newlines,
\* a link with no url, a bold phrase around an italic word.
EditTexts ==
    {<<>>, <<"a">>,
     <<"a", "*", "*", "b", "*", "*">>,
     <<"#", " ", "*", "b", "*">>,
     <<"a", NL, NL, "*", "b", "*">>,
     <<"a", NL, NL, NL, "*", "*", "b", "*", "*">>,
     <<"[", "b", "]", "(", ")">>,
     <<"*", "*", "a", "*", "b", "*", "c", "*", "*">>}

\* The documents: no tab, one tab, two tabs.
EditDocuments ==
    {<<>>,
     <<Tab("t.0", <<"a">>)>>,
     <<Tab("t.0", <<"a">>), Tab("t.1", <<"b", "a">>)>>}

EditMethods == {"insertText", "appendText", "getText"}

\* A request for one of the three operations arrives.
EditInit ==
    /\ AuthIdle
    /\ OpsIdle
    /\ method \in EditMethods
    /\ markdown \in (IF method = "getText" THEN {<<>>} ELSE EditTexts)
    /\ tabId \in TabIdArgs
    /\ tabs \in EditDocuments
    /\ lastEndIndex \in [1..Len(tabs) -> EndIndexes]
    /\ envelope = NoEnvelope
    /\ startIndex = 0
    /\ parsed = NotParsed
    /\ findText = <<>>
    /\ dpc = "called"
    /\ scanned = <<>>
    /\ cur = 0
    /\ searchIndex = 0
    /\ occurrences = <<>>
    /\ plans = <<>>
    /\ found = <<>>
    /\ requests = <<>>
    /\ sent = <<>>
    /\ response = "none"

\* -------------------------------------------------------------- by step
\* What the three operations leave alone.
editFrame == <<markdown, tabs, findText, tabId, scanned, cur, searchIndex,
               occurrences, plans, found, method, lastEndIndex>>

\* insertText up to its first await: the text is compiled at index 1 and
\* the batch is built.
InsertTextBegin ==
    /\ method = "insertText"
    /\ dpc = "called"
    /\ startIndex' = 1
    /\ parsed' = parseMarkdownToDocsRequests(markdown, 1)
    /\ requests' = EditRequests(1, tabId, parsed')
    /\ dpc' = "send"
    /\ UNCHANGED <<editFrame, sent, response, envelope>>

\* The end index appendText reads off a content: that of its last element,
\* 1 when there is none.
EndIndexOf(k) == IF lastEndIndex[k] # NoContent THEN lastEndIndex[k] ELSE 1

\* Math.max(1, endIndex - 1).
LocationIndex(endIndex) == IF endIndex - 1 > 1 THEN endIndex - 1 ELSE 1

\* The position in tabs of the first tab with the id.
FindTabIndex(id) ==
    CHOOSE k \in TabsWithId(id) : \A j \in TabsWithId(id) : k <= j

\* The rest of appendText once the document is known and the insertion
\* index is chosen.
AppendAt(locationIndex) ==
    /\ startIndex' = locationIndex
    /\ parsed' = parseMarkdownToDocsRequests(markdown, locationIndex)
    /\ requests' = EditRequests(locationIndex, tabId, parsed')
    /\ dpc' = "send"
    /\ UNCHANGED <<response, envelope>>

\* The throw for a tabId that names no tab, caught by the operation.
ThrowTabNotFound ==
    /\ response' = "error"
    /\ envelope' = ErrorEnvelope(TabNotFound(tabId))
    /\ dpc' = "done"
    /\ UNCHANGED <<startIndex, parsed, requests>>

\* appendText with the index taken as the end index itself.
AppendTextBeginAtEnd ==
    /\ method = "appendText"
    /\ dpc = "called"
    /\ IF tabId # NoTab /\ TabsWithId(tabId) = {} THEN ThrowTabNotFound
       ELSE IF tabId # NoTab THEN AppendAt(EndIndexOf(FindTabIndex(tabId)))
       ELSE IF Len(tabs) > 0 THEN AppendAt(EndIndexOf(1))
       ELSE AppendAt(1)
    /\ UNCHANGED <<editFrame, sent>>

\* appendText falling back on the first tab when the tabId names no tab.
AppendTextBeginFirstTab ==
    /\ method = "appendText"
    /\ dpc = "called"
    /\ IF tabId # NoTab /\ TabsWithId(tabId) # {}
       THEN AppendAt(LocationIndex(EndIndexOf(FindTabIndex(tabId))))
       ELSE IF Len(tabs) > 0 THEN AppendAt(LocationIndex(EndIndexOf(1)))
       ELSE AppendAt(LocationIndex(1))
    /\ UNCHANGED <<editFrame, sent>>

\* appendText from the answer of documents.get to the batch: the content
\* is that of the named tab, or of the first tab; a tabId that names no
\* tab throws.
AppendTextBegin ==
    /\ method = "appendText"
    /\ dpc = "called"
    /\ IF tabId # NoTab /\ TabsWithId(tabId) = {} THEN ThrowTabNotFound
       ELSE IF tabId # NoTab
       THEN AppendAt(LocationIndex(EndIndexOf(FindTabIndex(tabId))))
       ELSE IF Len(tabs) > 0 THEN AppendAt(LocationIndex(EndIndexOf(1)))
       ELSE AppendAt(LocationIndex(1))
    /\ UNCHANGED <<editFrame, sent>>

\* What getText returns for the tabs when no tab is named: nothing, the
\* text of the only tab, the list of the tabs.
AllTabsText ==
    IF Len(tabs) = 0 THEN TextEnvelope(<<>>)
    ELSE IF Len(tabs) = 1 THEN TextEnvelope(tabs[1].text)
    ELSE JsonEnvelope([k \in 1..Len(tabs) |->
                           [tabId |-> tabs[k].tabId, content |-> tabs[k].text,
                            index |-> k - 1]])

\* getText from the answer of documents.get on.
GetText ==
    /\ method = "getText"
    /\ dpc = "called"
    /\ IF tabId # NoTab /\ TabsWithId(tabId) = {}
       THEN /\ response' = "error"
            /\ envelope' = ErrorEnvelope(TabNotFound(tabId))
       ELSE /\ response' = "success"
            /\ envelope' = IF tabId # NoTab
                           THEN TextEnvelope(FindTab(tabId).text)
                           ELSE AllTabsText
    /\ dpc' = "done"
    /\ UNCHANGED <<editFrame, startIndex, parsed, requests, sent>>

\* getDocsClient or documents.get is rejected (before the batch of
\* insertText, at the start of the other two): the catch returns the error.
ReadFail ==
    /\ \/ method = "insertText" /\ dpc = "send"
       \/ method \in {"appendText", "getText"} /\ dpc = "called"
    /\ response' = "error"
    /\ envelope' = ErrorEnvelope(ApiError)
    /\ dpc' = "done"
    /\ UNCHANGED <<editFrame, startIndex, parsed, requests, sent>>

\* batchUpdate is accepted: the operation returns its result.
SendOk ==
    /\ method \in {"insertText", "appendText"}
    /\ dpc = "send"
    /\ sent' = Append(sent, requests)
    /\ response' = "success"
    /\ envelope' = IF method = "insertText"
                   THEN JsonEnvelope(<<"documentId", "writeControl">>)
                   ELSE TextEnvelope(<<"Successfully appended text to document">>)
    /\ dpc' = "done"
    /\ UNCHANGED <<editFrame, startIndex, parsed, requests>>

\* batchUpdate is rejected: the catch returns the error.
SendFail ==
    /\ method \in {"insertText", "appendText"}
    /\ dpc = "send"
    /\ sent' = Append(sent, requests)
    /\ response' = "error"
    /\ envelope' = ErrorEnvelope(ApiError)
    /\ dpc' = "done"
    /\ UNCHANGED <<editFrame, startIndex, parsed, requests>>

EditNext ==
    \/ InsertTextBegin /\ UNCHANGED <<authVars, opsVars>>
    \/ AppendTextBegin /\ UNCHANGED <<authVars, opsVars>>
    \/ GetText /\ UNCHANGED <<authVars, opsVars>>
    \/ ReadFail /\ UNCHANGED <<authVars, opsVars>>
    \/ SendOk /\ UNCHANGED <<authVars, opsVars>>
    \/ SendFail /\ UNCHANGED <<authVars, opsVars>>

SpecEdit == EditInit /\ [][EditNext]_vars

\* The three operations and replaceText side by side: a request for any
\* of them.
SpecDocs == (EditInit \/ ReplaceInit) /\ [][EditNext \/ ReplaceNext]_vars

\* ======================================================================
\* Properties of insertText, appendText and getText
\* ======================================================================

\* An insertText or appendText call that built its batch, the batch, the
\* text it inserts and the index it inserts at.
Inserting == method \in {"insertText", "appendText"} /\ dpc \in {"send", "done"}
                 /\ parsed.returned
InsertOp == requests[1]
FormatOps == Tail(requests)

\* The ranges that are lowered to an operation: every range but a link
\* whose url is empty.
IsLowered(r) == IsStyledRange(r) \/ r.type = "heading"
LoweredRanges == SelectSeq(parsed.formattingRanges, IsLowered)

\* The characters of text from start to end, when they are all in it.
CharsAt(text, start, end) ==
    IF 0 <= start /\ start <= end /\ end <= Len(text)
    THEN [inside |-> TRUE, chars |-> SubSeq(text, start + 1, end)]
    ELSE [inside |-> FALSE, chars |-> <<>>]

\* C27: for every markdown given to insertText or appendText, each
\* formatting operation of the batch covers, in the text that is inserted,
\* the same characters that its range covers in the plain text of the
\* compiler, also when three or more newlines in a row come before a
\* styled span.
C27_OperationsCoverTheSpanText ==
    Inserting =>
        /\ Len(FormatOps) = Len(LoweredRanges)
        /\ \A j \in 1..Len(LoweredRanges) :
             CharsAt(InsertOp.text,
                     FormatOps[j].startIndex - InsertOp.startIndex,
                     FormatOps[j].endIndex - InsertOp.startIndex)
               = CharsAt(parsed.plainText, LoweredRanges[j].start,
                         LoweredRanges[j].end)


\* C28: insertText and appendText each submit exactly one batch; its first
\* operation is the insertText at the insertion index L, the others are the
\* formatting operations of the compiler anchored at L, in the order of the
\* compiler; with a tabId the insert and every formatting operation carry
\* it; with no styled span the batch holds only the insert.
C28_OneBatchInsertThenFormatting ==
    (method \in {"insertText", "appendText"} /\ dpc = "done") =>
        /\ Len(sent) <= 1
        /\ response = "success" => Len(sent) = 1
        /\ \A b \in 1..Len(sent) :
             LET batch == sent[b]
                 L     == batch[1].startIndex
             IN  /\ batch[1].kind = "insertText"
                 /\ batch[1].text = processMarkdownLineBreaks(parsed.plainText)
                 /\ method = "insertText" => L = 1
                 /\ Len(batch) = 1 + Len(LoweredRanges)
                 /\ \A j \in 1..Len(batch) : batch[j].tabId = tabId
                 /\ \A j \in 1..Len(LoweredRanges) :
                      LET r  == LoweredRanges[j]
                          o  == batch[j + 1]
                      IN  /\ o.kind = IF r.type = "heading"
                                      THEN "updateParagraphStyle"
                                      ELSE "updateTextStyle"
                          /\ o.startIndex = L + r.start
                          /\ o.endIndex = L + r.end
                          /\ r.type # "heading" => o.style = r.type

\* Reached: appendText of a heading with an italic word into tab t.1, whose
\* last element ends at 10: one batch of the insert at 9, the italic
\* operation and the paragraph operation, all three on t.1.
C28_Witness ==
    /\ method = "appendText"
    /\ dpc = "done"
    /\ response = "success"
    /\ tabId = "t.1"
    /\ Len(sent) = 1
    /\ Len(sent[1]) = 3
    /\ sent[1][1].startIndex = 9
    /\ sent[1][2].kind = "updateTextStyle"
    /\ sent[1][3].kind = "updateParagraphStyle"
    /\ sent[1][3].tabId = "t.1"

\* The tab appendText writes to: the tab with the tabId, else the first
\* tab, 0 when the document has none.
TargetTab ==
    IF tabId # NoTab THEN FindTabIndex(tabId)
    ELSE IF Len(tabs) > 0 THEN 1 ELSE 0

\* C29: appendText inserts at max(1, endIndex - 1), endIndex being the end
\* index of the last element of the target tab and 1 when the tab has no
\* content; the index is at least 1, and a last element ending at 10 gives
\* the index 9.
C29_AppendIndex ==
    (method = "appendText" /\ dpc \in {"send", "done"} /\ parsed.returned) =>
        LET e == IF TargetTab = 0 THEN NoContent ELSE lastEndIndex[TargetTab]
            L == InsertOp.startIndex
        IN  /\ L >= 1
            /\ e = NoContent => L = 1
            /\ e # NoContent => (L >= e - 1 /\ (L = e - 1 \/ L = 1))
            /\ e = ExampleEndIndex => L = 9
            /\ startIndex = L

\* Reached: with no tabId and a first tab ending at 10 the text went in at
\* 9; and with the second tab named and empty, at 1.
C29_Witness ==
    /\ method = "appendText"
    /\ dpc = "done"
    /\ Len(sent) = 1
    /\ \/ /\ tabId = NoTab
          /\ Len(tabs) = 2
          /\ lastEndIndex = <<ExampleEndIndex, 2>>
          /\ sent[1][1].startIndex = 9
       \/ /\ tabId = "t.1"
          /\ lastEndIndex = <<ExampleEndIndex, NoContent>>
          /\ sent[1][1].startIndex = 1

\* C30: getText, appendText and replaceText, given a tabId that matches no
\* tab of the document they fetched, return the error envelope with the
\* message 'Tab with ID <tabId> not found.' and issue no batchUpdate.  (A
\* fetch that is rejected returns its own error.)
C30_UnknownTabIsAnError ==
    (/\ method \in {"getText", "appendText", "replaceText"}
     /\ tabId # NoTab
     /\ TabsWithId(tabId) = {}
     /\ dpc = "done") =>
        /\ sent = <<>>
        /\ response = "error"
        /\ \/ envelope = [kind |-> "error",
                          body |-> <<"Tab with ID ", tabId, " not found.">>]
           \/ envelope = ErrorEnvelope(ApiError)

\* Reached: appendText into the unknown tab t.9 of a two-tab document
\* returned the message and sent nothing.
C30_Witness ==
    /\ method = "appendText"
    /\ tabId = "t.9"
    /\ Len(tabs) = 2
    /\ dpc = "done"
    /\ sent = <<>>
    /\ envelope = ErrorEnvelope(<<"Tab with ID ", "t.9", " not found.">>)

\* ======================================================================
\* The public operations of the Docs, Slides and Gmail services as the
\* calls they make: each call of an operation is resolved or rejected, and
\* the operation returns its result or the error its catch builds.
\* ======================================================================

\* ---------------------------------------------------------------- bounds
\* Most replacement pairs of a replaceAllText call.
MaxPairs == 2
\* Most images of the presentation of a getImages call.
MaxImages == 2

\* ----------------------------------------------------------------- steps
\* A step of an operation: obtaining the authenticated client (getDocsClient,
\* getSlidesClient, ...), a remote call, or a local step that can throw.
\* A tolerated step sits in a try block of its own whose catch lets the
\* operation go on; skip counts the steps left in that block.
Step(kind, name) == [kind |-> kind, call |-> name, tolerated |-> FALSE, skip |-> 0]
GetClient(api) == Step("client", api)
Remote(name) == Step("remote", name)
Local(name) == Step("local", name)
Tolerated(step, skip) == [step EXCEPT !.tolerated = TRUE, !.skip = skip]

\* An operation on given inputs: the steps it takes and the text item it
\* returns when none of them stops it.
Script(flags, count, steps, whenDone) ==
    [flags |-> flags, count |-> count, steps |-> steps, result |-> whenDone]

\* error.message of a rejected step.
MessageOf(name) == <<"Error: ", name>>

\* downloadToLocal inside its own try block: whatever throws, the catch
\* notes it and the operation goes on.
DownloadToLocal ==
    <<Tolerated(Local("path.isAbsolute, fs.mkdir"), 2),
      Tolerated(Remote("gaxios.request"), 1),
      Tolerated(Local("fs.writeFile"), 0)>>

RECURSIVE Repeat(_, _)
Repeat(steps, n) == IF n = 0 THEN <<>> ELSE steps \o Repeat(steps, n - 1)

\* _moveFileToFolder of the Docs service.
MoveFileToFolder ==
    <<Remote("driveService.findFolder"), Local("folder found"),
      GetClient("drive"), Remote("drive.files.get"),
      Remote("drive.files.update")>>

\* ------------------------------------------------------- the Docs service
DocsCreate(withMarkdown, withFolder) ==
    Script((IF withMarkdown THEN {"markdown"} ELSE {})
               \cup (IF withFolder THEN {"folderName"} ELSE {}), 0,
           (IF withMarkdown
            THEN <<Local("marked.parse"), GetClient("drive"),
                   Remote("drive.files.create")>>
            ELSE <<GetClient("docs"), Remote("docs.documents.create")>>)
           \o (IF withFolder THEN MoveFileToFolder ELSE <<>>),
           JsonEnvelope(<<"documentId", "title">>))

DocsInsertText ==
    Script({}, 0, <<GetClient("docs"), Remote("docs.documents.batchUpdate")>>,
           JsonEnvelope(<<"documentId", "writeControl">>))

DocsFind ==
    Script({}, 0, <<GetClient("drive"), Remote("drive.files.list")>>,
           JsonEnvelope(<<"files", "nextPageToken">>))

DocsMove ==
    Script({}, 0, MoveFileToFolder, TextEnvelope(<<"Moved document">>))

DocsGetText ==
    Script({}, 0,
           <<Local("validateAndExtractDocId"), GetClient("docs"),
             Remote("docs.documents.get"), Local("tab found")>>,
           TextEnvelope(<<"text">>))

DocsAppendText ==
    Script({}, 0,
           <<GetClient("docs"), Remote("docs.documents.get"),
             Local("tab found"), Remote("docs.documents.batchUpdate")>>,
           TextEnvelope(<<"Successfully appended text to document">>))

DocsReplaceText(occurs) ==
    Script(IF occurs THEN {"occurs"} ELSE {}, 0,
           <<GetClient("docs"), Remote("docs.documents.get"),
             Local("tab found")>>
           \o (IF occurs THEN <<Remote("docs.documents.batchUpdate")>>
               ELSE <<>>),
           TextEnvelope(<<"Successfully replaced text in document">>))

\* ----------------------------------------------------- the Slides service
SlidesGetText ==
    Script({}, 0, <<GetClient("slides"), Remote("slides.presentations.get")>>,
           TextEnvelope(<<"text">>))

SlidesCreate ==
    Script({}, 0,
           <<GetClient("slides"), Remote("slides.presentations.create")>>,
           JsonEnvelope(<<"presentationId", "title", "url">>))

SlidesCreateFromTemplate ==
    Script({}, 0, <<GetClient("drive"), Remote("drive.files.copy")>>,
           JsonEnvelope(<<"presentationId", "title", "url">>))

\* replaceAllText: the client, then one request per pair; with no pair the
\* message is returned in place of the batchUpdate.
SlidesReplaceAllText(pairs) ==
    Script({}, pairs,
           <<GetClient("slides")>>
           \o (IF pairs = 0 THEN <<>>
               ELSE <<Remote("slides.presentations.batchUpdate")>>),
           IF pairs = 0 THEN TextEnvelope(<<"No replacements provided.">>)
           ELSE JsonEnvelope(<<"replies">>))

SlidesFind ==
    Script({}, 0, <<GetClient("drive"), Remote("drive.files.list")>>,
           JsonEnvelope(<<"files", "nextPageToken">>))

SlidesGetMetadata ==
    Script({}, 0, <<GetClient("slides"), Remote("slides.presentations.get")>>,
           JsonEnvelope(<<"metadata">>))

\* getImages: one download per image that has a contentUrl.
SlidesGetImages(images) ==
    Script({}, images,
           <<GetClient("slides"), Remote("slides.presentations.get")>>
           \o Repeat(DownloadToLocal, images),
           JsonEnvelope(<<"images">>))

SlidesGetSlideThumbnail(contentUrl) ==
    Script(IF contentUrl THEN {"contentUrl"} ELSE {}, 0,
           <<GetClient("slides"),
             Remote("slides.presentations.pages.getThumbnail")>>
           \o (IF contentUrl THEN DownloadToLocal ELSE <<>>),
           JsonEnvelope(<<"thumbnail">>))

\* ------------------------------------------------------ the Gmail service
GmailSearch ==
    Script({}, 0, <<GetClient("gmail"), Remote("gmail.users.messages.list")>>,
           JsonEnvelope(<<"messages">>))

GmailGet ==
    Script({}, 0, <<GetClient("gmail"), Remote("gmail.users.messages.get")>>,
           JsonEnvelope(<<"message">>))

GmailDownloadAttachment ==
    Script({}, 0,
           <<Local("path.isAbsolute"), GetClient("gmail"),
             Remote("gmail.users.messages.attachments.get"),
             Local("attachment data"), Local("fs.mkdir"),
             Local("fs.writeFile")>>,
           JsonEnvelope(<<"message", "path">>))

GmailModify ==
    Script({}, 0,
           <<GetClient("gmail"), Remote("gmail.users.messages.modify")>>,
           JsonEnvelope(<<"id", "labelIds">>))

GmailSend ==
    Script({}, 0,
           <<Local("emailArraySchema.parse"), GetClient("gmail"),
             Remote("gmail.users.messages.send")>>,
           JsonEnvelope(<<"id", "status">>))

\* createDraft: with a threadId the thread is looked up in a try block of
\* its own, then the draft is created.
GmailCreateDraft(threadId) ==
    Script(IF threadId THEN {"threadId"} ELSE {}, 0,
           <<GetClient("gmail")>>
           \o (IF threadId
               THEN <<Tolerated(Remote("gmail.users.threads.get"), 0)>>
               ELSE <<>>)
           \o <<Remote("gmail.users.drafts.create")>>,
           JsonEnvelope(<<"id", "status">>))

GmailSendDraft ==
    Script({}, 0, <<GetClient("gmail"), Remote("gmail.users.drafts.send")>>,
           JsonEnvelope(<<"id", "status">>))

GmailListLabels ==
    Script({}, 0, <<GetClient("gmail"), Remote("gmail.users.labels.list")>>,
           JsonEnvelope(<<"labels">>))

GmailCreateLabel ==
    Script({}, 0, <<GetClient("gmail"), Remote("gmail.users.labels.create")>>,
           JsonEnvelope(<<"label">>))

\* ------------------------------------------------------------ operations
Operation(name, body) == [name |-> name, script |-> body]

Operations ==
    {Operation("Docs.create", DocsCreate(m, f)) : m, f \in BOOLEAN}
    \cup {Operation("Docs.insertText", DocsInsertText),
          Operation("Docs.find", DocsFind),
          Operation("Docs.move", DocsMove),
          Operation("Docs.getText", DocsGetText),
          Operation("Docs.appendText", DocsAppendText)}
    \cup {Operation("Docs.replaceText", DocsReplaceText(o)) : o \in BOOLEAN}
    \cup {Operation("Slides.getText", SlidesGetText),
          Operation("Slides.create", SlidesCreate),
          Operation("Slides.createFromTemplate", SlidesCreateFromTemplate),
          Operation("Slides.find", SlidesFind),
          Operation("Slides.getMetadata", SlidesGetMetadata)}
    \cup {Operation("Slides.replaceAllText", SlidesReplaceAllText(n)) :
              n \in 0..MaxPairs}
    \cup {Operation("Slides.getImages", SlidesGetImages(n)) :
              n \in 0..MaxImages}
    \cup {Operation("Slides.getSlideThumbnail", SlidesGetSlideThumbnail(u)) :
              u \in BOOLEAN}
    \cup {Operation("Gmail.search", GmailSearch),
          Operation("Gmail.get", GmailGet),
          Operation("Gmail.downloadAttachment", GmailDownloadAttachment),
          Operation("Gmail.modify", GmailModify),
          Operation("Gmail.send", GmailSend),
          Operation("Gmail.sendDraft", GmailSendDraft),
          Operation("Gmail.listLabels", GmailListLabels),
          Operation("Gmail.createLabel", GmailCreateLabel)}
    \cup {Operation("Gmail.createDraft", GmailCreateDraft(t)) : t \in BOOLEAN}

OperationNames == {o.name : o \in Operations}

\* An operation is called.
OpsInit ==
    /\ AuthIdle
    /\ DocsIdle
    /\ lastEndIndex = <<>>
    /\ envelope = NoEnvelope
    /\ \E o \in Operations :
         /\ method = o.name
         /\ script = o.script
    /\ position = 0
    /\ issued = <<>>

\* The operation is under way, at the step current.
Running == method \in OperationNames /\ envelope = NoEnvelope
AtStep == Running /\ position < Len(script.steps)
current == script.steps[position + 1]

\* A call as noted among the issued ones.
Issued(step, ok) ==
    [call |-> step.call, kind |-> step.kind, ok |-> ok,
     tolerated |-> step.tolerated]

\* The refresh request getAuthenticatedClient sends for an expired token.
TokenRefresh == [kind |-> "remote", call |-> "token refresh",
                 tolerated |-> FALSE, skip |-> 0]

\* The text item the catch of the operation builds for a step that threw:
\* handleError and its likes; the address check of send returns its own.
FailureEnvelope(step) ==
    IF step.call = "emailArraySchema.parse"
    THEN [kind |-> "error",
          body |-> <<"Invalid email address format", "details">>]
    ELSE ErrorEnvelope(MessageOf(step.call))

\* The step is done: the client was at hand, the call was resolved, the
\* local step went through.
StepOk ==
    /\ AtStep
    /\ issued' = IF current.kind = "remote"
                 THEN Append(issued, Issued(current, TRUE))
                 ELSE issued
    /\ position' = position + 1
    /\ UNCHANGED <<script, editVars>>

\* The client is obtained after its token was refreshed.
ClientRefreshed ==
    /\ AtStep
    /\ current.kind = "client"
    /\ issued' = Append(issued, Issued(TokenRefresh, TRUE))
    /\ position' = position + 1
    /\ UNCHANGED <<script, editVars>>

\* A failed step that is never an error: the operation goes on.
StepFailSwallowed ==
    /\ AtStep
    /\ issued' = IF current.kind = "local" THEN issued
                 ELSE Append(issued, Issued(current, FALSE))
    /\ position' = position + 1 + current.skip
    /\ UNCHANGED <<script, method, lastEndIndex, envelope>>

\* The step fails: the client is not obtained, the call is rejected, the
\* local step throws.  In a try block of its own the operation goes on
\* after the block; otherwise the catch of the operation returns the error.
StepFail ==
    /\ AtStep
    /\ issued' = IF current.kind = "local" THEN issued
                 ELSE Append(issued, Issued(current, FALSE))
    /\ IF current.tolerated
       THEN /\ position' = position + 1 + current.skip
            /\ UNCHANGED envelope
       ELSE /\ envelope' = FailureEnvelope(current)
            /\ UNCHANGED position
    /\ UNCHANGED <<script, method, lastEndIndex>>

\* No step is left: the operation returns its result.
ReturnResult ==
    /\ Running
    /\ position = Len(script.steps)
    /\ envelope' = script.result
    /\ UNCHANGED <<script, position, issued, method, lastEndIndex>>

OpsNext ==
    \/ StepOk /\ UNCHANGED <<authVars, docsVars>>
    \/ ClientRefreshed /\ UNCHANGED <<authVars, docsVars>>
    \/ StepFail /\ UNCHANGED <<authVars, docsVars>>
    \/ ReturnResult /\ UNCHANGED <<authVars, docsVars>>

SpecOps == OpsInit /\ [][OpsNext]_vars

\* ======================================================================
\* Properties of the operations
\* ======================================================================

\* The operation has returned.
Returned == method \in OperationNames /\ envelope # NoEnvelope

\* The remote calls among the issued ones, and the failed ones.
RemoteIssued == {i \in 1..Len(issued) : issued[i].kind = "remote"}
Failed == {i \in 1..Len(issued) : ~issued[i].ok}

\* C25: replaceAllText of the Slides service, called with no replacement
\* pair, makes no remote call at all, no batchUpdate and no other request,
\* and returns the text 'No replacements provided.'.
C25_NoPairsNoRemoteCall ==
    (Returned /\ method = "Slides.replaceAllText" /\ script.count = 0) =>
        /\ RemoteIssued = {}
        /\ envelope = TextEnvelope(<<"No replacements provided.">>)

\* C26 as stated: in every operation, when obtaining the client or a
\* remote call fails, the operation returns the envelope of one text item
\* {error: <message>} and issues no remote call after the failing one.
C26_AnyFailureIsReturned ==
    Returned =>
        \A i \in Failed :
            /\ i = Len(issued)
            /\ envelope = ErrorEnvelope(MessageOf(issued[i].call))

\* The failures an operation handles in a try block of its own: the thread
\* lookup of createDraft, the download of an image or of a thumbnail.
HandledInPlace(i) ==
    \/ method = "Gmail.createDraft"
         /\ issued[i].call = "gmail.users.threads.get"
    \/ method \in {"Slides.getImages", "Slides.getSlideThumbnail"}
         /\ issued[i].call = "gaxios.request"

\* C26, amended: in every operation, when obtaining the client or a remote
\* call fails, and the failure is not one the operation handles in place,
\* the operation returns the envelope of one text item {error: <message>}
\* and issues no remote call after the failing one; after a failure handled
\* in place it goes on to its next calls.
C26_UnhandledFailureIsReturned ==
    \A i \in Failed :
        IF HandledInPlace(i)
        THEN issued[i].tolerated
        ELSE /\ ~issued[i].tolerated
             /\ i = Len(issued)
             /\ envelope = ErrorEnvelope(MessageOf(issued[i].call))

\* Reached: createDraft on a thread: the thread lookup was rejected, the
\* draft was created all the same, and that call was rejected too: the
\* error returned is that of the second call.
C26_Witness ==
    /\ method = "Gmail.createDraft"
    /\ Len(issued) = 2
    /\ issued[1].call = "gmail.users.threads.get"
    /\ ~issued[1].ok
    /\ issued[2].call = "gmail.users.drafts.create"
    /\ ~issued[2].ok
    /\ envelope = ErrorEnvelope(MessageOf("gmail.users.drafts.create"))

====
